---------------------------- MODULE Spec2Model ----------------------------
(***************************************************************************)
(* Model of the avax-withdrawal-bot core: the resilient RPC provider       *)
(* (src/src/services/provider.js), the contract service built on it        *)
(* (src/src/services/contract.js) and the notification store               *)
(* (src/src/services/json-store.js).                                       *)
(*                                                                         *)
(* JavaScript runs one task at a time: the code between two awaits is one  *)
(* atomic action here, and a call is suspended only at its awaits (the     *)
(* raced operation of withTimeout and the backoff sleep).                  *)
(***************************************************************************)
EXTENDS Integers, Sequences, FiniteSets, TLC

(***************************************************************************)
(* Bounds of the model.                                                    *)
(***************************************************************************)
MaxProviders == 3
MaxRetries == 4
MaxBaseDelay == 2
MaxRetryDelay == 3
MaxCalls == 2
MaxRpcUrls == 2
MaxTicks == 3
MaxFrequencySeconds == 2
MaxCounted == 2

Calls == 1..MaxCalls

Min(a, b) == IF a <= b THEN a ELSE b

VARIABLES
    numProviders,          \* this.providers.length
    maxRetries,            \* this.maxRetries
    retryDelay,            \* this.retryDelay
    maxRetryDelay,         \* this.maxRetryDelay
    currentProviderIndex,  \* this.currentProviderIndex (the shared cursor)
    pc,                    \* per call: where executeWithRetry is suspended
    providerAttempt,       \* per call: the outer loop counter
    attempt,               \* per call: the inner loop counter
    delay,                 \* per call: the current backoff delay
    provider,              \* per call: the provider read by getProvider()
    request,               \* per call: the contract method called and its argument
    result,                \* per call: what the operation resolved with
    tried,                 \* per call: the providers it has made an attempt on
    trace,                 \* per call: what the call has done so far
    finishOrder,           \* the calls that have ended, in the order they ended
    op,                    \* the ContractService operation in progress
    opReturn,              \* how the last ContractService operation ended
    subscriptions,         \* store.data.subscriptions
    notificationHistory,   \* store.data.notificationHistory
    completionStatus,      \* store.data.completionStatus
    now,                   \* Date.now()
    pollIntervalMs,        \* poller.pollIntervalMs
    timeoutId,             \* poller.timeoutId
    intervalId,            \* poller.intervalId
    timers,                \* the timers of the runtime that are live
    isPolling,             \* poller.isPolling
    cycles,                \* the poll() calls in progress: where each is suspended, its locals
    ledger,                \* the withdrawal requests of the contract, by id
    lastSentAt,            \* per chat and request: when a batch last listed it
    steady,                \* per request: claimable on the ledger ever since
    completions,           \* per chat: completion messages sent since its wallet last had an active request
    allDelivered           \* no delivery has failed so far

configVars == <<numProviders, maxRetries, retryDelay, maxRetryDelay>>
callVars == <<pc, providerAttempt, attempt, delay, provider, request, result,
              tried, trace, finishOrder>>
providerVars == <<configVars, currentProviderIndex, callVars>>
ledgerVars == <<op, opReturn>>
storeVars == <<subscriptions, notificationHistory, completionStatus, now>>
schedulerVars == <<pollIntervalMs, timeoutId, intervalId, timers, isPolling>>
historyVars == <<lastSentAt, steady, completions, allDelivered>>
pollerVars == <<schedulerVars, cycles, ledger, historyVars>>
vars == <<providerVars, ledgerVars, storeVars, pollerVars>>

(***************************************************************************)
(* Values.                                                                 *)
(***************************************************************************)
ZeroAddress == "0x0000000000000000000000000000000000000000"
OwnerAddress == "0x61f908D4992a790A2792D3C36850B4b9eB5849A3"
\* A JavaScript string that the code takes apart is the sequence of its
\* characters; Decimal(n) is String(n) for an integer n
DigitChars == <<"0", "1", "2", "3", "4", "5", "6", "7", "8", "9">>
RECURSIVE Decimal(_)
Decimal(n) ==
    IF n < 0 THEN <<"-">> \o Decimal(0 - n)
    ELSE IF n < 10 THEN <<DigitChars[n + 1]>>
    ELSE Decimal(n \div 10) \o <<DigitChars[(n % 10) + 1]>>

\* request ids as the contract returns them (uint256), and as the service
\* hands them on (id.toString())
ChainIds == {7, 71}
RequestIds == {Decimal(n) : n \in ChainIds}
NoRequest == [method |-> "none", args |-> <<>>]
NoResult == [shape |-> "none"]
\* JavaScript null
Null == [shape |-> "null"]
\* a response that is not of the shape the ABI promises
Malformed == [shape |-> "malformed"]

\* the lists of at most two elements of S
ListsOver(S) == {<<>>} \cup {<<a>> : a \in S} \cup {<<a, b>> : a, b \in S}

\* what the remote operation of a contract method can resolve with
Responses(method) ==
    CASE method = "getRequestsByOwner" ->
            {[shape |-> "list", ids |-> l] : l \in ListsOver(ChainIds)} \cup {Malformed}
      [] method = "canClaimRequest" ->
            {[shape |-> "bool", value |-> b] : b \in BOOLEAN}
      [] method = "getRequestInfo" ->
            {[shape |-> "info", requester |-> a] : a \in {ZeroAddress, OwnerAddress}}
                \cup {Malformed}
      [] OTHER -> {[shape |-> "number"]}

(***************************************************************************)
(* Errors an attempt can end with, by the text of their message: the       *)
(* error withTimeout rejects with, and a rejection by the contract.        *)
(***************************************************************************)
Errors == {"timeout after 30000ms", "execution reverted"}

isNonRetryableErrorNever(error) == FALSE

\* provider.js isNonRetryableError: the message contains one of the patterns
isNonRetryableError(error) == error \in {"execution reverted"}

switchToNextProviderUnwrapped(index) == index + 1

switchToNextProviderStay(index) == index

\* provider.js switchToNextProvider: the new value of the cursor
switchToNextProvider(index) == (index + 1) % numProviders

ResetToPrimaryNever(index) == index

\* provider.js executeWithRetry, on success: the new value of the cursor
ResetToPrimary(index) == IF index # 0 THEN 0 ELSE index

NextDelayUncapped(d) == d * 2

\* provider.js executeWithRetry: the delay after a backoff sleep
NextDelay(d) == Min(d * 2, maxRetryDelay)

\* Events of a call's trace
StartEvent(index) == [kind |-> "start", cursor |-> index]
AttemptEvent(p, o) == [kind |-> "attempt", provider |-> p, outcome |-> o]
SleepEvent(ms) == [kind |-> "sleep", ms |-> ms]
RotateEvent == [kind |-> "rotate"]

\* A trace is kept for the calls launched with one (those of SpecProvider)
Log(c, events) ==
    trace' = [trace EXCEPT ![c] = IF @ = <<>> THEN @ ELSE @ \o events]

InitCalls ==
    /\ currentProviderIndex = 0
    /\ pc = [c \in Calls |-> "idle"]
    /\ providerAttempt = [c \in Calls |-> 0]
    /\ attempt = [c \in Calls |-> 0]
    /\ delay = [c \in Calls |-> 0]
    /\ provider = [c \in Calls |-> 0]
    /\ request = [c \in Calls |-> NoRequest]
    /\ result = [c \in Calls |-> NoResult]
    /\ tried = [c \in Calls |-> {}]
    /\ trace = [c \in Calls |-> <<>>]
    /\ finishOrder = <<>>

InitLedger ==
    /\ op = [name |-> "none", args |-> <<>>, state |-> "idle"]
    /\ opReturn = [kind |-> "none"]

\* JavaScript objects used as maps from strings
EmptyObject == [k \in {} |-> Null]
Put(object, key, value) ==
    [k \in DOMAIN object \cup {key} |-> IF k = key THEN value ELSE object[k]]
Delete(object, keys) == [k \in DOMAIN object \ keys |-> object[k]]

\* new JsonStore() on a fresh data file
InitStore ==
    /\ subscriptions = EmptyObject
    /\ notificationHistory = EmptyObject
    /\ completionStatus = EmptyObject
    /\ now = 0

\* POLL_INTERVAL_MS when the environment does not set it
DefaultPollIntervalMs == 900000

\* new PollerService(contractService, store, bot, pollIntervalMs): no timer, no
\* cycle; nothing sent yet; no request on the contract
InitPoller ==
    /\ pollIntervalMs = DefaultPollIntervalMs
    /\ timeoutId = Null
    /\ intervalId = Null
    /\ timers = {}
    /\ isPolling = FALSE
    /\ cycles = {}
    /\ ledger = [id \in ChainIds |-> "absent"]
    /\ lastSentAt = EmptyObject
    /\ steady = [id \in ChainIds |-> FALSE]
    /\ completions = EmptyObject
    /\ allDelivered = TRUE

\* new ResilientProvider(rpcUrls, options)
Init ==
    /\ numProviders \in 1..MaxProviders
    /\ maxRetries \in 1..MaxRetries
    /\ retryDelay \in 1..MaxBaseDelay
    /\ maxRetryDelay \in 1..MaxRetryDelay
    /\ InitCalls
    /\ InitLedger
    /\ InitStore
    /\ InitPoller

Finished(c) == pc[c] \in {"idle", "returned", "threw"}

\* The calls of S enter executeWithRetry in one synchronous block, call c
\* with request reqs[c]: each sets its locals, reads the provider and starts
\* its first attempt.  The other calls are over and their state is dropped.
Launch(S, reqs, traced) ==
    /\ \A c \in Calls : Finished(c)
    /\ pc' = [c \in Calls |-> IF c \in S THEN "awaiting" ELSE "idle"]
    /\ providerAttempt' = [c \in Calls |-> 0]
    /\ attempt' = [c \in Calls |-> 0]
    /\ delay' = [c \in Calls |-> IF c \in S THEN retryDelay ELSE 0]
    /\ provider' = [c \in Calls |-> IF c \in S THEN currentProviderIndex ELSE 0]
    /\ request' = [c \in Calls |-> IF c \in S THEN reqs[c] ELSE NoRequest]
    /\ result' = [c \in Calls |-> NoResult]
    /\ tried' = [c \in Calls |-> {}]
    /\ trace' = [c \in Calls |->
                    IF c \in S /\ traced THEN <<StartEvent(currentProviderIndex)>>
                                         ELSE <<>>]
    /\ finishOrder' = <<>>
    /\ UNCHANGED <<configVars, currentProviderIndex>>

\* getBlockNumber(): executeWithRetry from its entry to the first await
Start(c) ==
    /\ Launch({c}, [d \in {c} |-> [method |-> "getBlockNumber", args |-> <<>>]], TRUE)
    /\ UNCHANGED <<ledgerVars, storeVars, pollerVars>>

\* the awaited operation resolves with `value`: reset to the primary and return
AttemptSucceeds(c, value) ==
    /\ pc[c] = "awaiting"
    /\ value \in Responses(request[c].method)
    /\ currentProviderIndex' = ResetToPrimary(currentProviderIndex)
    /\ pc' = [pc EXCEPT ![c] = "returned"]
    /\ result' = [result EXCEPT ![c] = value]
    /\ tried' = [tried EXCEPT ![c] = @ \cup {provider[c]}]
    /\ finishOrder' = Append(finishOrder, c)
    /\ Log(c, <<AttemptEvent(provider[c], "ok")>>)
    /\ UNCHANGED <<configVars, providerAttempt, attempt, delay, provider, request,
                   ledgerVars, storeVars, pollerVars>>

LeaveProviderAlwaysRotating(c, events) ==
    LET cursor == switchToNextProvider(currentProviderIndex)
        pa == providerAttempt[c] + 1
    IN  /\ currentProviderIndex' = cursor
        /\ providerAttempt' = [providerAttempt EXCEPT ![c] = pa]
        /\ delay' = [delay EXCEPT ![c] = retryDelay]
        /\ Log(c, events \o <<RotateEvent>>)
        /\ IF pa < numProviders
              THEN /\ provider' = [provider EXCEPT ![c] = cursor]
                   /\ attempt' = [attempt EXCEPT ![c] = 0]
                   /\ pc' = [pc EXCEPT ![c] = "awaiting"]
                   /\ UNCHANGED finishOrder
              ELSE /\ pc' = [pc EXCEPT ![c] = "threw"]
                   /\ finishOrder' = Append(finishOrder, c)
                   /\ UNCHANGED <<provider, attempt>>

\* The inner loop is over (retries exhausted, or a break): rotate if a
\* provider remains, then either start the next provider's first attempt or
\* throw the aggregate error.  `events` is what the attempt has logged.
LeaveProvider(c, events) ==
    LET more == providerAttempt[c] < numProviders - 1
        cursor == IF more THEN switchToNextProvider(currentProviderIndex)
                          ELSE currentProviderIndex
        pa == providerAttempt[c] + 1
    IN  /\ currentProviderIndex' = cursor
        /\ providerAttempt' = [providerAttempt EXCEPT ![c] = pa]
        /\ delay' = [delay EXCEPT ![c] = IF more THEN retryDelay ELSE @]
        /\ Log(c, IF more THEN events \o <<RotateEvent>> ELSE events)
        /\ IF pa < numProviders
              THEN /\ provider' = [provider EXCEPT ![c] = cursor]
                   /\ attempt' = [attempt EXCEPT ![c] = 0]
                   /\ pc' = [pc EXCEPT ![c] = "awaiting"]
                   /\ UNCHANGED finishOrder
              ELSE /\ pc' = [pc EXCEPT ![c] = "threw"]
                   /\ finishOrder' = Append(finishOrder, c)
                   /\ UNCHANGED <<provider, attempt>>

\* as AttemptFails, but a non-retryable error ends the whole call
AttemptFailsEndsCall(c, error) ==
    /\ pc[c] = "awaiting"
    /\ tried' = [tried EXCEPT ![c] = @ \cup {provider[c]}]
    /\ LET ev == <<AttemptEvent(provider[c], error)>>
       IN  IF isNonRetryableError(error)
              THEN /\ pc' = [pc EXCEPT ![c] = "threw"]
                   /\ finishOrder' = Append(finishOrder, c)
                   /\ Log(c, ev)
                   /\ UNCHANGED <<currentProviderIndex, providerAttempt,
                                  attempt, delay, provider>>
              ELSE IF attempt[c] < maxRetries - 1
                      THEN /\ pc' = [pc EXCEPT ![c] = "sleeping"]
                           /\ Log(c, ev \o <<SleepEvent(delay[c])>>)
                           /\ UNCHANGED <<currentProviderIndex, providerAttempt,
                                          attempt, delay, provider, finishOrder>>
                      ELSE LeaveProvider(c, ev)
    /\ UNCHANGED <<configVars, request, result, ledgerVars, storeVars, pollerVars>>

\* the awaited operation rejects (or the timeout fires first) with `error`
AttemptFails(c, error) ==
    /\ pc[c] = "awaiting"
    /\ tried' = [tried EXCEPT ![c] = @ \cup {provider[c]}]
    /\ LET ev == <<AttemptEvent(provider[c], error)>>
       IN  IF isNonRetryableError(error)
              THEN LeaveProvider(c, ev)
              ELSE IF attempt[c] < maxRetries - 1
                      THEN /\ pc' = [pc EXCEPT ![c] = "sleeping"]
                           /\ Log(c, ev \o <<SleepEvent(delay[c])>>)
                           /\ UNCHANGED <<currentProviderIndex, providerAttempt,
                                          attempt, delay, provider, finishOrder>>
                      ELSE LeaveProvider(c, ev)
    /\ UNCHANGED <<configVars, request, result, ledgerVars, storeVars, pollerVars>>

WakeSameAttempt(c) ==
    /\ pc[c] = "sleeping"
    /\ delay' = [delay EXCEPT ![c] = NextDelay(@)]
    /\ pc' = [pc EXCEPT ![c] = "awaiting"]
    /\ UNCHANGED <<configVars, currentProviderIndex, providerAttempt, attempt, provider,
                   request, result, tried, trace, finishOrder, ledgerVars, storeVars,
                   pollerVars>>

\* the backoff sleep is over: double the delay and try the same provider again
Wake(c) ==
    /\ pc[c] = "sleeping"
    /\ delay' = [delay EXCEPT ![c] = NextDelay(@)]
    /\ attempt' = [attempt EXCEPT ![c] = @ + 1]
    /\ pc' = [pc EXCEPT ![c] = "awaiting"]
    /\ UNCHANGED <<configVars, currentProviderIndex, providerAttempt, provider,
                   request, result, tried, trace, finishOrder, ledgerVars, storeVars,
                   pollerVars>>

\* One caller: a call starts only after the previous one has ended
NextProvider ==
    \/ Start(1)
    \/ \E value \in Responses("getBlockNumber") : AttemptSucceeds(1, value)
    \/ \E error \in Errors : AttemptFails(1, error)
    \/ Wake(1)

SpecProvider == Init /\ [][NextProvider]_vars

\* the timer of withTimeout fires when the operation has not completed, and
\* the timer of sleep fires
SpecProviderFair ==
    /\ SpecProvider
    /\ WF_vars(\E error \in {"timeout after 30000ms"} : AttemptFails(1, error))
    /\ WF_vars(Wake(1))

(***************************************************************************)
(* What the claims read off a call's trace.                                *)
(***************************************************************************)
TransportErrors == {"timeout after 30000ms"}
ApplicationErrors == {"execution reverted"}

IsAttempt(e) == e.kind = "attempt"
Attempts(c) == SelectSeq(trace[c], IsAttempt)
StartCursor(c) == trace[c][1].cursor
Started(c) == trace[c] # <<>>
AllAttemptsIn(c, errors) == \A i \in 1..Len(Attempts(c)) : Attempts(c)[i].outcome \in errors
\* the positions of the events of kind k among positions lo..hi of trace t
Positions(t, lo, hi, k) == {j \in lo..hi : t[j].kind = k}
\* the positions of the attempts made on provider p
AttemptsOn(t, p) == {j \in 1..Len(t) : t[j].kind = "attempt" /\ t[j].provider = p}

(***************************************************************************)
(* C1: a call that runs alone and whose every attempt fails with a         *)
(* retryable error makes exactly N*M attempts, M consecutive ones on each  *)
(* provider in pool order from the cursor it started at, and throws the    *)
(* aggregate error exactly when the N*M attempts are made.                 *)
(***************************************************************************)
C1_ExactlyNTimesMAttempts ==
    \A c \in Calls :
        (Started(c) /\ AllAttemptsIn(c, TransportErrors)) =>
            LET a == Attempts(c)
                n == numProviders * maxRetries
            IN  /\ Len(a) <= n
                /\ \A i \in 1..Len(a) :
                       a[i].provider =
                           (StartCursor(c) + ((i - 1) \div maxRetries)) % numProviders
                /\ (pc[c] = "threw") <=> (Len(a) = n)

C1_Witness ==
    /\ pc[1] = "threw"
    /\ AllAttemptsIn(1, TransportErrors)
    /\ numProviders = 3
    /\ maxRetries = 2
    /\ StartCursor(1) = 2
    /\ Len(Attempts(1)) = 6

(***************************************************************************)
(* C2: a non-retryable error ends the attempts on the current provider at  *)
(* once (no sleep, no further attempt there) but not the call: while a     *)
(* provider remains the cursor rotates and the next provider gets its own  *)
(* attempts; a call whose every attempt is non-retryable makes exactly N   *)
(* attempts, one per provider, and then throws.                            *)
(***************************************************************************)
C2_NonRetryableSkipsProviderOnly ==
    \A c \in Calls :
        LET t == trace[c] IN
        /\ \A i \in 1..Len(t) :
               (t[i].kind = "attempt" /\ t[i].outcome \in ApplicationErrors) =>
                   LET next == (t[i].provider + 1) % numProviders IN
                   IF Cardinality(Positions(t, 1, i - 1, "rotate")) < numProviders - 1
                      THEN /\ i < Len(t)
                           /\ t[i + 1].kind = "rotate"
                           /\ IF i + 2 <= Len(t)
                                 THEN t[i + 2].kind = "attempt" /\ t[i + 2].provider = next
                                 ELSE /\ pc[c] = "awaiting"
                                      /\ provider[c] = next
                                      /\ currentProviderIndex = next
                                      /\ attempt[c] = 0
                      ELSE i = Len(t) /\ pc[c] = "threw"
        /\ (Started(c) /\ pc[c] = "threw" /\ AllAttemptsIn(c, ApplicationErrors)) =>
               /\ Len(Attempts(c)) = numProviders
               /\ \A i \in 1..numProviders :
                      Attempts(c)[i].provider = (StartCursor(c) + i - 1) % numProviders

C2_Witness ==
    /\ pc[1] = "threw"
    /\ AllAttemptsIn(1, ApplicationErrors)
    /\ numProviders = 3
    /\ maxRetries = 3
    /\ Len(Attempts(1)) = 3

(***************************************************************************)
(* C3: when a call returns successfully the cursor is 0 at that moment,    *)
(* and the call started next makes its first attempt on provider 0.        *)
(***************************************************************************)
C3_SuccessResetsToPrimary ==
    [][\A c \in Calls :
          /\ (pc[c] # "returned" /\ pc'[c] = "returned") => currentProviderIndex' = 0
          /\ (pc[c] = "returned" /\ pc'[c] = "awaiting") => provider'[c] = 0]_vars

C3_Witness ==
    /\ pc[1] = "returned"
    /\ trace[1][Len(trace[1])].provider = 2
    /\ currentProviderIndex = 0

(***************************************************************************)
(* C4 as stated: a call that starts at cursor 0, fails on providers        *)
(* 0..k-1 and succeeds on provider k has made M attempts on each of        *)
(* 0..k-1, or 1 attempt where the failure was non-retryable, in order,     *)
(* with no attempt after the success and none on a provider beyond k.      *)
(***************************************************************************)
FailoverShape(c) ==
    LET t == trace[c]
        k == t[Len(t)].provider
    IN  /\ t[Len(t)].kind = "attempt"
        /\ t[Len(t)].outcome = "ok"
        /\ \A i \in 1..Len(Attempts(c)) : Attempts(c)[i].provider <= k
        /\ \A i \in 1..(Len(Attempts(c)) - 1) :
               Attempts(c)[i].provider <= Attempts(c)[i + 1].provider
        /\ \A i \in 1..(Len(t) - 1) : t[i].kind = "attempt" => t[i].outcome # "ok"

C4_FailoverAsStated ==
    \A c \in Calls :
        (pc[c] = "returned" /\ StartCursor(c) = 0) =>
            LET t == trace[c]
                k == t[Len(t)].provider
            IN  /\ FailoverShape(c)
                /\ \A p \in 0..(k - 1) :
                       \/ Cardinality(AttemptsOn(t, p)) = maxRetries
                       \/ /\ Cardinality(AttemptsOn(t, p)) = 1
                          /\ \A j \in AttemptsOn(t, p) : t[j].outcome \in ApplicationErrors

(***************************************************************************)
(* C4 as amended: on each of providers 0..k-1 the call has made either M   *)
(* attempts, all retryable, or at most M attempts of which the last one,   *)
(* and only the last one, is non-retryable.                                *)
(***************************************************************************)
C4_Failover ==
    \A c \in Calls :
        (pc[c] = "returned" /\ StartCursor(c) = 0) =>
            LET t == trace[c]
                k == t[Len(t)].provider
            IN  /\ FailoverShape(c)
                /\ \A p \in 0..(k - 1) :
                       LET on == AttemptsOn(t, p)
                           last == CHOOSE j \in on : \A l \in on : l <= j
                       IN  /\ on # {}
                           /\ Cardinality(on) <= maxRetries
                           /\ \A j \in on \ {last} : t[j].outcome \in TransportErrors
                           /\ \/ t[last].outcome \in ApplicationErrors
                              \/ /\ t[last].outcome \in TransportErrors
                                 /\ Cardinality(on) = maxRetries

C4_Witness ==
    /\ pc[1] = "returned"
    /\ StartCursor(1) = 0
    /\ maxRetries = 3
    /\ trace[1][Len(trace[1])].provider = 2
    /\ Cardinality(AttemptsOn(trace[1], 0)) = 2
    /\ Cardinality(AttemptsOn(trace[1], 1)) = 3

(***************************************************************************)
(* C5: with retryDelay <= maxRetryDelay, the k-th sleep on a provider      *)
(* lasts min(2^(k-1) * retryDelay, maxRetryDelay) and never more than      *)
(* maxRetryDelay; a sleep follows each retryable failure but the M-th      *)
(* attempt on a provider (M - 1 sleeps for M attempts), and the sequence   *)
(* restarts at retryDelay after a rotation.                                *)
(***************************************************************************)
\* Positions i.. of trace t follow the backoff rule, `sleeps` sleeps and
\* `tries` attempts having been made on the current provider before i;
\* factor = 2^sleeps
RECURSIVE BackoffFrom(_, _, _, _, _)
BackoffFrom(t, i, sleeps, factor, tries) ==
    IF i > Len(t) THEN TRUE
    ELSE IF t[i].kind = "sleep"
       THEN /\ t[i].ms = Min(factor * retryDelay, maxRetryDelay)
            /\ t[i].ms <= maxRetryDelay
            /\ sleeps + 1 <= maxRetries - 1
            /\ t[i - 1].kind = "attempt"
            /\ t[i - 1].outcome \in TransportErrors
            /\ i < Len(t) =>
                   /\ t[i + 1].kind = "attempt"
                   /\ t[i + 1].provider = t[i - 1].provider
            /\ BackoffFrom(t, i + 1, sleeps + 1, 2 * factor, tries)
    ELSE IF t[i].kind = "attempt"
       THEN /\ t[i].outcome \in TransportErrors =>
                   IF tries + 1 < maxRetries
                      THEN i < Len(t) /\ t[i + 1].kind = "sleep"
                      ELSE i < Len(t) => t[i + 1].kind = "rotate"
            /\ t[i].outcome \notin TransportErrors =>
                   (i < Len(t) => t[i + 1].kind = "rotate")
            /\ BackoffFrom(t, i + 1, sleeps, factor, tries + 1)
    ELSE BackoffFrom(t, i + 1, 0, 1, 0)

C5_BackoffSequence ==
    retryDelay <= maxRetryDelay =>
        \A c \in Calls : BackoffFrom(trace[c], 1, 0, 1, 0)

C5_Witness ==
    /\ pc[1] = "threw"
    /\ numProviders = 2
    /\ maxRetries = 4
    /\ retryDelay = 1
    /\ maxRetryDelay = 3
    /\ Len(trace[1]) = 16
    /\ trace[1][3].ms = 1
    /\ trace[1][5].ms = 2
    /\ trace[1][7].ms = 3
    /\ trace[1][11].ms = 1

(***************************************************************************)
(* ContractService (src/src/services/contract.js).  An operation of the    *)
(* service launches its executeWithRetry calls, which then run as above;   *)
(* when they have all ended the operation's continuation computes what it  *)
(* returns from how each call ended.                                       *)
(***************************************************************************)
ServiceMaxRetries == 3
ServiceRetryDelay == 1000
ServiceMaxRetryDelay == 10000

Return(v) == [kind |-> "return", value |-> v]
Throw(e) == [kind |-> "throw", error |-> e]

CatchNothing(outcome, default) == outcome

\* try { ... } catch (error) { return default; }
Catch(outcome, default) ==
    IF outcome.kind = "throw" THEN Return(default) ELSE outcome

\* provider.js callContractMethod: how the finished call c ended
callContractMethod(c) ==
    IF pc[c] = "threw" THEN Throw("failed after trying all providers")
                       ELSE Return(result[c])

\* contract.js getRequestsByOwner, on the call c it awaited
getRequestsByOwner(c) ==
    LET r == callContractMethod(c)
        body == IF r.kind = "throw" THEN r
                ELSE IF r.value.shape # "list" THEN Throw("TypeError")
                ELSE Return([i \in 1..Len(r.value.ids) |-> Decimal(r.value.ids[i])])
    IN  Catch(body, <<>>)

\* contract.js canClaimRequest, on the call c it awaited
canClaimRequest(c) ==
    LET r == callContractMethod(c)
        body == IF r.kind = "throw" THEN r ELSE Return(r.value.value)
    IN  Catch(body, FALSE)

\* contract.js getRequestInfo, on the call c it awaited
getRequestInfo(c) ==
    LET r == callContractMethod(c)
        body == IF r.kind = "throw" THEN r
                ELSE IF r.value.shape # "info" THEN Throw("TypeError")
                ELSE Return([shape |-> "info", requester |-> r.value.requester])
    IN  Catch(body, Null)

isRequestInactiveTrusting(c) ==
    LET info == getRequestInfo(c)
    IN  IF info.kind = "throw" THEN info
        ELSE IF info.value = Null THEN Return(FALSE)
        ELSE Return(info.value.requester = ZeroAddress)

\* contract.js isRequestInactive, on the call c its getRequestInfo awaited
isRequestInactive(c) ==
    LET info == getRequestInfo(c)
    IN  IF info.kind = "throw" THEN info
        ELSE IF info.value = Null THEN Return(TRUE)
        ELSE Return(info.value.requester = ZeroAddress)

RECURSIVE ActiveIds(_, _)
\* results.filter(r => r.isActive).map(r => r.id), results being listed by `order`
ActiveIds(results, order) ==
    IF order = <<>> THEN <<>>
    ELSE LET r == results[Head(order)]
         IN  (IF r.isActive THEN <<r.id>> ELSE <<>>) \o ActiveIds(results, Tail(order))

filterActiveRequestsAsCompleted(ids) ==
    LET checks == [i \in 1..Len(ids) |-> isRequestInactive(i)]
        results == [i \in 1..Len(ids) |-> [id |-> ids[i], isActive |-> ~checks[i].value]]
    IN  IF \E i \in 1..Len(ids) : checks[i].kind = "throw"
           THEN Throw("rejected")
           ELSE Return(ActiveIds(results, finishOrder))

\* contract.js filterActiveRequests, once Promise.all has resolved: the
\* check of ids[i] was made by call i, and results[i] is its result
filterActiveRequests(ids) ==
    LET checks == [i \in 1..Len(ids) |-> isRequestInactive(i)]
        results == [i \in 1..Len(ids) |-> [id |-> ids[i], isActive |-> ~checks[i].value]]
    IN  IF \E i \in 1..Len(ids) : checks[i].kind = "throw"
           THEN Throw("rejected")
           ELSE Return(ActiveIds(results, [i \in 1..Len(ids) |-> i]))

\* new ContractService(rpcUrl, contractAddress, fallbackRpcUrls)
InitService ==
    /\ numProviders \in 1..MaxRpcUrls
    /\ maxRetries = ServiceMaxRetries
    /\ retryDelay = ServiceRetryDelay
    /\ maxRetryDelay = ServiceMaxRetryDelay
    /\ InitCalls
    /\ InitLedger
    /\ InitStore
    /\ InitPoller

\* the contract method an operation of the service calls
MethodOf(name) ==
    IF name \in {"isRequestInactive", "filterActiveRequests"} THEN "getRequestInfo" ELSE name

\* the calls an operation makes: one per id for filterActiveRequests
CallsOf(o) == IF o.name = "filterActiveRequests" THEN 1..Len(o.args) ELSE {1}

\* an operation of the service is called: it runs to its await
Begin(name, args) ==
    /\ op.state # "running"
    /\ op' = [name |-> name, args |-> args, state |-> "running"]
    /\ opReturn' = [kind |-> "none"]
    /\ LET S == CallsOf(op')
       IN  Launch(S, [c \in S |->
                        [method |-> MethodOf(name),
                         args |-> IF name = "getRequestsByOwner"
                                     THEN <<args[1], 0, 0>> ELSE <<args[c]>>]],
                  FALSE)
    /\ UNCHANGED <<storeVars, pollerVars>>

\* every awaited call has ended
Joined ==
    /\ op.state = "running"
    /\ \A c \in CallsOf(op) : pc[c] \in {"returned", "threw"}

\* the operation's await is over: it runs to its end
Continue ==
    /\ Joined
    /\ op' = [op EXCEPT !.state = "done"]
    /\ opReturn' =
          CASE op.name = "getRequestsByOwner" -> getRequestsByOwner(1)
            [] op.name = "canClaimRequest" -> canClaimRequest(1)
            [] op.name = "getRequestInfo" -> getRequestInfo(1)
            [] op.name = "isRequestInactive" -> isRequestInactive(1)
            [] op.name = "filterActiveRequests" -> filterActiveRequests(op.args)
    /\ UNCHANGED <<providerVars, storeVars, pollerVars>>

\* a call of the operation in progress moves on
CallStep(c) ==
    /\ op.state = "running"
    /\ \/ \E value \in Responses(request[c].method) : AttemptSucceeds(c, value)
       \/ \E error \in Errors : AttemptFails(c, error)
       \/ Wake(c)

NextService ==
    \/ Begin("getRequestsByOwner", <<OwnerAddress>>)
    \/ \E name \in {"canClaimRequest", "getRequestInfo", "isRequestInactive"} :
          \E id \in RequestIds : Begin(name, <<id>>)
    \/ \E ids \in ListsOver(RequestIds) : Begin("filterActiveRequests", ids)
    \/ \E c \in Calls : CallStep(c)
    \/ Continue

SpecService == InitService /\ [][NextService]_vars

(***************************************************************************)
(* C6: a call that throws the aggregate error has made at least one        *)
(* attempt on every provider of the pool, also when it ran together with   *)
(* other calls launched by the same filterActiveRequests.                  *)
(***************************************************************************)
C6_AggregateErrorAfterEveryProvider ==
    \A c \in Calls : pc[c] = "threw" => tried[c] = 0..(numProviders - 1)

(***************************************************************************)
(* C7: getRequestsByOwner, canClaimRequest and getRequestInfo never throw: *)
(* when the awaited call threw, or its result could not be read, they      *)
(* return [], false and null.                                              *)
(***************************************************************************)
CallFailed(c) ==
    \/ pc[c] = "threw"
    \/ pc[c] = "returned" /\ result[c] = Malformed

C7_QueriesAbsorbFailure ==
    (op.state = "done"
        /\ op.name \in {"getRequestsByOwner", "canClaimRequest", "getRequestInfo"}) =>
        /\ opReturn.kind = "return"
        /\ CallFailed(1) =>
              opReturn = Return(CASE op.name = "getRequestsByOwner" -> <<>>
                                  [] op.name = "canClaimRequest" -> FALSE
                                  [] op.name = "getRequestInfo" -> Null)

C7_Witness ==
    /\ op.state = "done"
    /\ op.name = "getRequestsByOwner"
    /\ pc[1] = "threw"
    /\ numProviders = 2
    /\ opReturn = Return(<<>>)

(***************************************************************************)
(* C8: isRequestInactive returns true exactly when the fetch of the        *)
(* request's info failed or the requester fetched is the zero address,     *)
(* and false otherwise: a failed fetch and a claimed request give the      *)
(* caller the same value.                                                  *)
(***************************************************************************)
C8_InactiveIffFailedOrClaimed ==
    (op.state = "done" /\ op.name = "isRequestInactive") =>
        opReturn = Return(\/ CallFailed(1)
                          \/ /\ pc[1] = "returned"
                             /\ result[1].shape = "info"
                             /\ result[1].requester = ZeroAddress)

C8_Witness ==
    /\ op.state = "done"
    /\ op.name = "isRequestInactive"
    /\ pc[1] = "threw"
    /\ opReturn = Return(TRUE)

(***************************************************************************)
(* C9: filterActiveRequests(ids) returns the ids whose check found them    *)
(* active, in the order of ids, whatever the order in which the checks     *)
(* ended, and it returns only after every check has ended.                 *)
(***************************************************************************)
ClassifiedActive(c) ==
    /\ pc[c] = "returned"
    /\ result[c].shape = "info"
    /\ result[c].requester # ZeroAddress

RECURSIVE ActiveSubsequence(_, _)
ActiveSubsequence(ids, i) ==
    IF i > Len(ids) THEN <<>>
    ELSE (IF ClassifiedActive(i) THEN <<ids[i]>> ELSE <<>>)
             \o ActiveSubsequence(ids, i + 1)

C9_FilterKeepsInputOrder ==
    (op.state = "done" /\ op.name = "filterActiveRequests") =>
        /\ \A i \in 1..Len(op.args) : pc[i] \in {"returned", "threw"}
        /\ Len(finishOrder) = Len(op.args)
        /\ opReturn = Return(ActiveSubsequence(op.args, 1))

C9_Witness ==
    /\ op.state = "done"
    /\ op.name = "filterActiveRequests"
    /\ op.args = <<Decimal(7), Decimal(71)>>
    /\ finishOrder = <<2, 1>>
    /\ opReturn = Return(<<Decimal(7), Decimal(71)>>)

(***************************************************************************)
(* JsonStore (src/src/services/json-store.js).  The store's operations are *)
(* synchronous: each is one action.  The timestamps no operation reads     *)
(* (createdAt, updatedAt, firstNotifiedAt) are not kept, and saveData,     *)
(* which swallows its own failure, changes nothing the operations read.    *)
(***************************************************************************)
MsPerSecond == 1000

\* the chats and wallets of the model
ChatIds == {1, 12}
WalletAddresses == {"0xAbC1", "0xDeF2"}

\* String.prototype.toLowerCase on the addresses of the model
toLowerCase(address) ==
    CASE address = "0xAbC1" -> "0xabc1"
      [] address = "0xDeF2" -> "0xdef2"
      [] OTHER -> address

\* String.prototype.startsWith
startsWith(string, prefix) ==
    /\ Len(prefix) <= Len(string)
    /\ SubSeq(string, 1, Len(prefix)) = prefix

\* `${chatId}`, the property name of a chat
ChatKey(chatId) == Decimal(chatId)

\* `${chatId}:${requestId}`
NotificationKey(chatId, requestId) == Decimal(chatId) \o <<":">> \o requestId

\* json-store.js subscribe
subscribe(chatId, walletAddress, frequencySeconds) ==
    /\ subscriptions' = Put(subscriptions, ChatKey(chatId),
                            [walletAddress |-> toLowerCase(walletAddress),
                             frequencySeconds |-> frequencySeconds,
                             active |-> TRUE])
    /\ completionStatus' = Delete(completionStatus, {ChatKey(chatId)})
    /\ UNCHANGED notificationHistory

\* json-store.js unsubscribe
unsubscribe(chatId) ==
    IF ChatKey(chatId) \in DOMAIN subscriptions
       THEN /\ subscriptions' = Delete(subscriptions, {ChatKey(chatId)})
            /\ notificationHistory' =
                  Delete(notificationHistory,
                         {key \in DOMAIN notificationHistory :
                              startsWith(key, Decimal(chatId) \o <<":">>)})
            /\ completionStatus' = Delete(completionStatus, {ChatKey(chatId)})
       ELSE UNCHANGED <<subscriptions, notificationHistory, completionStatus>>

shouldNotifyAfterWindow(chatId, requestId) ==
    IF ChatKey(chatId) \notin DOMAIN subscriptions THEN FALSE
    ELSE LET sub == subscriptions[ChatKey(chatId)]
             key == NotificationKey(chatId, requestId)
         IN  IF key \notin DOMAIN notificationHistory THEN TRUE
             ELSE now - notificationHistory[key].lastNotifiedAt
                      > sub.frequencySeconds * MsPerSecond

\* json-store.js shouldNotify
shouldNotify(chatId, requestId) ==
    IF ChatKey(chatId) \notin DOMAIN subscriptions THEN FALSE
    ELSE LET sub == subscriptions[ChatKey(chatId)]
             key == NotificationKey(chatId, requestId)
         IN  IF key \notin DOMAIN notificationHistory THEN TRUE
             ELSE now - notificationHistory[key].lastNotifiedAt
                      >= sub.frequencySeconds * MsPerSecond

\* json-store.js recordNotification
recordNotification(chatId, requestId) ==
    /\ notificationHistory' = Put(notificationHistory,
                                  NotificationKey(chatId, requestId),
                                  [lastNotifiedAt |-> now])
    /\ UNCHANGED <<subscriptions, completionStatus>>

\* a command handler or the poller calls subscribe
Subscribe(chatId, walletAddress, frequencySeconds) ==
    /\ subscribe(chatId, walletAddress, frequencySeconds)
    /\ UNCHANGED <<providerVars, ledgerVars, pollerVars, now>>

\* a command handler calls unsubscribe
Unsubscribe(chatId) ==
    /\ unsubscribe(chatId)
    /\ UNCHANGED <<providerVars, ledgerVars, pollerVars, now>>

\* the poller calls recordNotification
RecordNotification(chatId, requestId) ==
    /\ recordNotification(chatId, requestId)
    /\ UNCHANGED <<providerVars, ledgerVars, pollerVars, now>>

\* a second passes on the clock Date.now() reads
Tick ==
    /\ now < MaxTicks * MsPerSecond
    /\ now' = now + MsPerSecond
    /\ UNCHANGED <<providerVars, ledgerVars, pollerVars, subscriptions, notificationHistory,
                   completionStatus>>

NextStore ==
    \/ \E chatId \in ChatIds, walletAddress \in {"0xAbC1"},
          frequencySeconds \in 1..MaxFrequencySeconds :
          Subscribe(chatId, walletAddress, frequencySeconds)
    \/ \E chatId \in ChatIds : Unsubscribe(chatId)
    \/ \E chatId \in ChatIds, requestId \in RequestIds :
          RecordNotification(chatId, requestId)
    \/ Tick

SpecStore == InitService /\ [][NextStore]_vars

slice(string, n) == SubSeq(string, n + 1, Len(string))

\* the digit a character stands for
DigitOf(char) == CHOOSE d \in 0..9 : DigitChars[d + 1] = char

\* parseInt on the decimal strings of the model
RECURSIVE parseInt(_)
parseInt(string) ==
    IF Len(string) = 0 THEN 0
    ELSE IF string[1] = "-" THEN 0 - parseInt(slice(string, 1))
    ELSE parseInt(SubSeq(string, 1, Len(string) - 1)) * 10
             + DigitOf(string[Len(string)])

\* the property names of an object whose names are integers, in the order
\* Object.keys, Object.values and Object.entries visit them: ascending
RECURSIVE KeysInOrder(_)
KeysInOrder(keys) ==
    IF keys = {} THEN <<>>
    ELSE LET first == CHOOSE k \in keys :
                          \A other \in keys : parseInt(k) <= parseInt(other)
         IN  <<first>> \o KeysInOrder(keys \ {first})

\* Array.from(new Set(list)): the first occurrences, in order
RECURSIVE Unique(_)
Unique(list) ==
    IF list = <<>> THEN <<>>
    ELSE LET front == Unique(SubSeq(list, 1, Len(list) - 1))
             last == list[Len(list)]
         IN  IF \E i \in 1..Len(front) : front[i] = last
                THEN front ELSE Append(front, last)

Elements(list) == {list[i] : i \in 1..Len(list)}

\* json-store.js getAllMonitoredWallets
getAllMonitoredWallets(subs) ==
    LET keys == KeysInOrder({k \in DOMAIN subs : subs[k].active})
    IN  Unique([i \in 1..Len(keys) |-> subs[keys[i]].walletAddress])

\* json-store.js getChatsForWallet
getChatsForWallet(subs, walletAddress) ==
    LET keys == KeysInOrder({k \in DOMAIN subs :
                    subs[k].active
                      /\ subs[k].walletAddress = toLowerCase(walletAddress)})
    IN  [i \in 1..Len(keys) |-> parseInt(keys[i])]

isDueOncePerChat(subs, history, at, chatId, requestId) ==
    IF ChatKey(chatId) \notin DOMAIN subs THEN FALSE
    ELSE \A key \in DOMAIN history :
            startsWith(key, Decimal(chatId) \o <<":">>) =>
               at - history[key].lastNotifiedAt
                   >= subs[ChatKey(chatId)].frequencySeconds * MsPerSecond

\* json-store.js shouldNotify, at time `at`
isDue(subs, history, at, chatId, requestId) ==
    IF ChatKey(chatId) \notin DOMAIN subs THEN FALSE
    ELSE LET sub == subs[ChatKey(chatId)]
             key == NotificationKey(chatId, requestId)
         IN  IF key \notin DOMAIN history THEN TRUE
             ELSE at - history[key].lastNotifiedAt
                      >= sub.frequencySeconds * MsPerSecond

\* json-store.js recordNotification for each request of a batch
recordNotifications(history, at, chatId, requestIds) ==
    [key \in DOMAIN history
               \cup {NotificationKey(chatId, r) : r \in Elements(requestIds)} |->
        IF \E r \in Elements(requestIds) : key = NotificationKey(chatId, r)
           THEN [lastNotifiedAt |-> at]
           ELSE history[key]]

cleanupInactiveRequestsByDigits(history, chatId, activeRequestIds) ==
    LET prefix == Decimal(chatId)
    IN  Delete(history,
               {key \in DOMAIN history :
                   /\ startsWith(key, prefix)
                   /\ slice(key, Len(prefix) + 1) \notin Elements(activeRequestIds)})

\* json-store.js cleanupInactiveRequests
cleanupInactiveRequests(history, chatId, activeRequestIds) ==
    LET prefix == Decimal(chatId) \o <<":">>
    IN  Delete(history,
               {key \in DOMAIN history :
                   /\ startsWith(key, prefix)
                   /\ slice(key, Len(prefix)) \notin Elements(activeRequestIds)})

\* json-store.js shouldSendCompletion: the status it leaves and what it returns
shouldSendCompletion(statuses, chatId, requestCount) ==
    LET key == ChatKey(chatId)
    IN  IF key \notin DOMAIN statuses
              \/ (statuses[key].lastRequestCount = 0 /\ requestCount > 0)
           THEN [status |-> Put(statuses, key, [completionSent |-> FALSE,
                                                lastRequestCount |-> requestCount]),
                 value |-> requestCount = 0]
        ELSE IF requestCount = 0 /\ ~statuses[key].completionSent
           THEN [status |-> statuses, value |-> TRUE]
        ELSE IF statuses[key].lastRequestCount # requestCount
           THEN [status |-> Put(statuses, key,
                     [completionSent |-> IF requestCount > 0 THEN FALSE
                                         ELSE statuses[key].completionSent,
                      lastRequestCount |-> requestCount]),
                 value |-> FALSE]
        ELSE [status |-> statuses, value |-> FALSE]

\* json-store.js markCompletionSent
markCompletionSent(statuses, chatId) ==
    LET key == ChatKey(chatId)
        count == IF key \in DOMAIN statuses THEN statuses[key].lastRequestCount ELSE 0
    IN  Put(statuses, key, [completionSent |-> TRUE, lastRequestCount |-> count])

(***************************************************************************)
(* PollerService (src/src/services/json-store.js).  A poll cycle is        *)
(* suspended only at its awaits: of a ledger query or of a delivery by     *)
(* bot.api.sendMessage.  Each action is the synchronous code from one      *)
(* await to the next.  What a ledger query resolves with is any value the  *)
(* ContractService operation can return for the state of the contract:     *)
(* the true answer, or the default that absorbs a failed call.             *)
(***************************************************************************)
Statuses == {"absent", "pending", "claimable", "claimed"}
Lifecycle == {<<"absent", "pending">>, <<"pending", "claimable">>,
              <<"claimable", "claimed">>}

\* the wallet that owns the requests of the contract
LedgerOwner == "0xabc1"

\* contract.js getRequestsByOwner: the owner's ids, or [] after a failure
RequestsByOwnerResults(walletAddress) ==
    LET owned == IF walletAddress = LedgerOwner
                    THEN {Decimal(id) : id \in {i \in DOMAIN ledger : ledger[i] # "absent"}}
                    ELSE {}
    IN  {KeysInOrder(owned), <<>>}

\* contract.js filterActiveRequests: an id is kept when its info was fetched
\* and its requester is not the zero address
ActiveResults(requestIds) ==
    LET active == {r \in Elements(requestIds) :
                       ledger[parseInt(r)] \in {"pending", "claimable"}}
    IN  {LET Kept(r) == r \in fetched IN SelectSeq(requestIds, Kept) :
            fetched \in SUBSET active}

\* json-store.js getClaimableFromActive: an id is kept when canClaimRequest
\* returned true
ClaimableResults(requestIds) ==
    LET claimable == {r \in Elements(requestIds) : ledger[parseInt(r)] = "claimable"}
    IN  {LET Kept(r) == r \in answered IN SelectSeq(requestIds, Kept) :
            answered \in SUBSET claimable}

\* the timer setTimeout or setInterval makes, which is also the handle
\* returned: its kind, when it is due, and the delay it was given
Timer(kind, due, ms) == [shape |-> kind, due |-> due, ms |-> ms]

Max(a, b) == IF a >= b THEN a ELSE b

\* new Date(): the minute, second and millisecond of the time `at`
getMinutes(at) == (at \div 60000) % 60
getSeconds(at) == (at \div 1000) % 60
getMilliseconds(at) == at % 1000

\* Math.ceil(a / b) for a >= 0 and b > 0
CeilDiv(a, b) == (a + b - 1) \div b

\* json-store.js calculateDelayToNextAlignedTime
calculateDelayToNextAlignedTime(at) ==
    LET currentMinute == getMinutes(at)
        currentSecond == getSeconds(at)
        currentMs == getMilliseconds(at)
        nextAlignedMinute == CeilDiv(currentMinute, 15) * 15
        minutesUntilNext == (nextAlignedMinute - currentMinute) % 60
    IN  (minutesUntilNext * 60 * 1000) - (currentSecond * 1000) - currentMs

\* a poll() that started at `startedAt`, at the await of checkWallet's first
\* query for the wallet-th wallet
CheckWallet(wallets, wallet, startedAt) ==
    [pc |-> "getRequestsByOwner", wallets |-> wallets, wallet |-> wallet,
     startedAt |-> startedAt,
     allRequestIds |-> <<>>, activeRequestIds |-> <<>>, queried |-> <<>>,
     claimableRequestIds |-> <<>>, chatIds |-> <<>>, chat |-> 0,
     requestsToNotify |-> <<>>]

pollUnguarded ==
    LET wallets == getAllMonitoredWallets(subscriptions)
    IN  IF wallets = <<>>
           THEN /\ isPolling' = FALSE
                /\ UNCHANGED cycles
           ELSE /\ isPolling' = TRUE
                /\ cycles' = cycles \cup {CheckWallet(wallets, 1, now)}

\* json-store.js poll, up to its first await
poll ==
    IF isPolling THEN UNCHANGED <<isPolling, cycles>>
    ELSE LET wallets == getAllMonitoredWallets(subscriptions)
         IN  IF wallets = <<>>
                THEN /\ isPolling' = FALSE
                     /\ UNCHANGED cycles
                ELSE /\ isPolling' = TRUE
                     /\ cycles' = cycles \cup {CheckWallet(wallets, 1, now)}

startUnguarded ==
    /\ LET ms == calculateDelayToNextAlignedTime(now)
           timer == Timer("timeout", now + Max(ms, 0), ms)
       IN  /\ timeoutId' = timer
           /\ timers' = timers \cup {timer}
    /\ UNCHANGED <<providerVars, ledgerVars, storeVars, pollIntervalMs, intervalId,
                   isPolling, cycles, ledger, historyVars>>

\* json-store.js start
start ==
    /\ IF intervalId # Null \/ timeoutId # Null
          THEN UNCHANGED <<timeoutId, timers>>
          ELSE LET ms == calculateDelayToNextAlignedTime(now)
                   timer == Timer("timeout", now + Max(ms, 0), ms)
               IN  /\ timeoutId' = timer
                   /\ timers' = timers \cup {timer}
    /\ UNCHANGED <<providerVars, ledgerVars, storeVars, pollIntervalMs, intervalId,
                   isPolling, cycles, ledger, historyVars>>

stopAborting ==
    /\ timers' = timers \ {intervalId, timeoutId}
    /\ intervalId' = Null
    /\ timeoutId' = Null
    /\ cycles' = {}
    /\ isPolling' = FALSE
    /\ UNCHANGED <<providerVars, ledgerVars, storeVars, pollIntervalMs,
                   ledger, historyVars>>

\* json-store.js stop: clearInterval and clearTimeout of the handles held
stop ==
    /\ timers' = timers \ {intervalId, timeoutId}
    /\ intervalId' = Null
    /\ timeoutId' = Null
    /\ UNCHANGED <<providerVars, ledgerVars, storeVars, pollIntervalMs,
                   isPolling, cycles, ledger, historyVars>>

\* the callback start() gave to setTimeout runs: the timer t is due
TimeoutFires(t) ==
    /\ t \in timers
    /\ t.shape = "timeout"
    /\ now >= t.due
    /\ timeoutId' = Null
    /\ poll
    /\ LET timer == Timer("interval", now + pollIntervalMs, pollIntervalMs)
       IN  /\ intervalId' = timer
           /\ timers' = (timers \ {t}) \cup {timer}
    /\ UNCHANGED <<providerVars, ledgerVars, storeVars, pollIntervalMs, ledger,
                   historyVars>>

\* the callback given to setInterval runs: the timer t is due, and is due
\* again one interval later
IntervalFires(t) ==
    /\ t \in timers
    /\ t.shape = "interval"
    /\ now >= t.due
    /\ poll
    /\ LET timer == Timer("interval", now + pollIntervalMs, pollIntervalMs)
       IN  /\ timers' = (timers \ {t}) \cup {timer}
           /\ intervalId' = IF intervalId = t THEN timer ELSE intervalId
    /\ UNCHANGED <<providerVars, ledgerVars, storeVars, pollIntervalMs, timeoutId,
                   ledger, historyVars>>

AfterWalletEnding(c) == [pc |-> "done"]

\* json-store.js poll: the wallet loop after one checkWallet has returned
AfterWallet(c) ==
    IF c.wallet < Len(c.wallets) THEN CheckWallet(c.wallets, c.wallet + 1, c.startedAt)
    ELSE [pc |-> "done"]

ProceedKeepingGuard(c, next) ==
    /\ cycles' = IF next.pc = "done" THEN cycles \ {c} ELSE (cycles \ {c}) \cup {next}
    /\ UNCHANGED isPolling

\* the cycle c goes on as `next`; at its end the finally block clears the guard
Proceed(c, next) ==
    IF next.pc = "done"
       THEN /\ cycles' = cycles \ {c}
            /\ isPolling' = FALSE
       ELSE /\ cycles' = (cycles \ {c}) \cup {next}
            /\ UNCHANGED isPolling

RECURSIVE NotifyFrom(_, _, _)
NotifyFromUnfiltered(c, history, from) ==
    IF from > Len(c.chatIds)
       THEN [history |-> history, chat |-> 0, requestsToNotify |-> <<>>]
       ELSE LET chatId == c.chatIds[from]
                cleaned == cleanupInactiveRequests(history, chatId, c.activeRequestIds)
            IN  [history |-> cleaned, chat |-> from,
                 requestsToNotify |-> c.claimableRequestIds]

\* json-store.js notifyChatsForWallet: the chat loop from the chat at index
\* `from`, up to the first chat that has requests to notify
NotifyFrom(c, history, from) ==
    IF from > Len(c.chatIds)
       THEN [history |-> history, chat |-> 0, requestsToNotify |-> <<>>]
       ELSE LET chatId == c.chatIds[from]
                cleaned == cleanupInactiveRequests(history, chatId, c.activeRequestIds)
                Due(requestId) == isDue(subscriptions, cleaned, now, chatId, requestId)
                requestsToNotify == SelectSeq(c.claimableRequestIds, Due)
            IN  IF requestsToNotify = <<>>
                   THEN NotifyFrom(c, cleaned, from + 1)
                   ELSE [history |-> cleaned, chat |-> from,
                         requestsToNotify |-> requestsToNotify]

\* json-store.js handleAllRequestsInactive: the chat loop from the chat at
\* index `from`, up to the first chat that is sent the completion message
RECURSIVE CompletionFrom(_, _, _, _)
CompletionFrom(c, history, statuses, from) ==
    IF from > Len(c.chatIds)
       THEN [history |-> history, statuses |-> statuses, chat |-> 0]
       ELSE LET chatId == c.chatIds[from]
                cleaned == cleanupInactiveRequests(history, chatId, <<>>)
                should == shouldSendCompletion(statuses, chatId, 0)
            IN  IF should.value
                   THEN [history |-> cleaned, statuses |-> should.status, chat |-> from]
                   ELSE CompletionFrom(c, cleaned, should.status, from + 1)

\* json-store.js checkWallet lines 404-407: shouldSendCompletion for each chat
RECURSIVE CountActive(_, _, _)
CountActive(statuses, chatIds, requestCount) ==
    IF chatIds = <<>> THEN statuses
    ELSE CountActive(shouldSendCompletion(statuses, chatIds[1], requestCount).status,
                     Tail(chatIds), requestCount)

\* notifyChatsForWallet goes on from the chat at index `from`: it sends the
\* next batch and waits for its delivery, or ends the check of the wallet
NotifyChats(old, c, history, from) ==
    LET r == NotifyFrom(c, history, from)
    IN  /\ notificationHistory' = r.history
        /\ IF r.chat = 0
              THEN /\ Proceed(old, AfterWallet(c))
                   /\ UNCHANGED lastSentAt
              ELSE /\ Proceed(old, [c EXCEPT !.pc = "sendNotification",
                                             !.chat = r.chat,
                                             !.requestsToNotify = r.requestsToNotify])
                   /\ lastSentAt' = recordNotifications(lastSentAt, now,
                                        c.chatIds[r.chat], r.requestsToNotify)

\* handleAllRequestsInactive goes on from the chat at index `from`
CompleteChats(old, c, statuses, from) ==
    LET r == CompletionFrom(c, notificationHistory, statuses, from)
    IN  /\ notificationHistory' = r.history
        /\ completionStatus' = r.statuses
        /\ IF r.chat = 0
              THEN /\ Proceed(old, AfterWallet(c))
                   /\ UNCHANGED completions
              ELSE /\ Proceed(old, [c EXCEPT !.pc = "sendCompletion", !.chat = r.chat])
                   /\ completions' =
                         Put(completions, c.chatIds[r.chat],
                             IF c.chatIds[r.chat] \in DOMAIN completions
                                THEN Min(completions[c.chatIds[r.chat]] + 1, MaxCounted)
                                ELSE 1)

GetRequestsByOwnerResolvesCompleting(c, allRequestIds) ==
    /\ c \in cycles
    /\ c.pc = "getRequestsByOwner"
    /\ allRequestIds \in RequestsByOwnerResults(c.wallets[c.wallet])
    /\ IF Len(allRequestIds) = 0
          THEN CompleteChats(c, [c EXCEPT !.chatIds =
                                    getChatsForWallet(subscriptions, c.wallets[c.wallet])],
                             completionStatus, 1)
          ELSE /\ Proceed(c, [c EXCEPT !.pc = "filterActiveRequests",
                                       !.allRequestIds = allRequestIds])
               /\ UNCHANGED <<notificationHistory, completionStatus, completions>>
    /\ UNCHANGED <<providerVars, ledgerVars, subscriptions, now, pollIntervalMs, timeoutId,
                   intervalId, timers, ledger, lastSentAt, steady, allDelivered>>

\* checkWallet: getRequestsByOwner has returned
GetRequestsByOwnerResolves(c, allRequestIds) ==
    /\ c \in cycles
    /\ c.pc = "getRequestsByOwner"
    /\ allRequestIds \in RequestsByOwnerResults(c.wallets[c.wallet])
    /\ IF Len(allRequestIds) = 0
          THEN Proceed(c, AfterWallet(c))
          ELSE Proceed(c, [c EXCEPT !.pc = "filterActiveRequests",
                                    !.allRequestIds = allRequestIds])
    /\ UNCHANGED <<providerVars, ledgerVars, storeVars, pollIntervalMs, timeoutId,
                   intervalId, timers, ledger, historyVars>>

\* checkWallet: filterActiveRequests has returned
FilterActiveRequestsResolves(c, activeRequestIds) ==
    /\ c \in cycles
    /\ c.pc = "filterActiveRequests"
    /\ activeRequestIds \in ActiveResults(c.allRequestIds)
    /\ LET chatIds == getChatsForWallet(subscriptions, c.wallets[c.wallet])
       IN  IF Len(activeRequestIds) = 0
              THEN /\ CompleteChats(c, [c EXCEPT !.chatIds = chatIds],
                                    completionStatus, 1)
              ELSE /\ completionStatus' =
                         CountActive(completionStatus, chatIds, Len(activeRequestIds))
                   /\ completions' = Delete(completions, Elements(chatIds))
                   /\ Proceed(c, [c EXCEPT !.pc = "getClaimableFromActive",
                                           !.activeRequestIds = activeRequestIds,
                                           !.queried = activeRequestIds])
                   /\ UNCHANGED notificationHistory
    /\ UNCHANGED <<providerVars, ledgerVars, subscriptions, now, pollIntervalMs,
                   timeoutId, intervalId, timers, ledger, lastSentAt, steady, allDelivered>>

\* checkWallet: getClaimableFromActive has returned
GetClaimableFromActiveResolves(c, claimableRequestIds) ==
    /\ c \in cycles
    /\ c.pc = "getClaimableFromActive"
    /\ claimableRequestIds \in ClaimableResults(c.queried)
    /\ IF Len(claimableRequestIds) > 0
          THEN NotifyChats(c, [c EXCEPT !.claimableRequestIds = claimableRequestIds,
                                        !.chatIds = getChatsForWallet(subscriptions,
                                                        c.wallets[c.wallet])],
                           notificationHistory, 1)
          ELSE /\ Proceed(c, AfterWallet(c))
               /\ UNCHANGED <<notificationHistory, lastSentAt>>
    /\ UNCHANGED <<providerVars, ledgerVars, subscriptions, completionStatus, now,
                   pollIntervalMs, timeoutId, intervalId, timers, ledger, steady,
                   completions, allDelivered>>

\* notifyChatsForWallet: sendNotification has returned, whether
\* bot.api.sendMessage delivered the batch or threw
SendNotificationResolves(c, delivered) ==
    /\ c \in cycles
    /\ c.pc = "sendNotification"
    /\ NotifyChats(c, c,
                   recordNotifications(notificationHistory, now, c.chatIds[c.chat],
                                       c.requestsToNotify),
                   c.chat + 1)
    /\ allDelivered' = (allDelivered /\ delivered)
    /\ UNCHANGED <<providerVars, ledgerVars, subscriptions, completionStatus, now,
                   pollIntervalMs, timeoutId, intervalId, timers, ledger, steady,
                   completions>>

SendCompletionResolvesMarking(c, delivered) ==
    /\ c \in cycles
    /\ c.pc = "sendCompletion"
    /\ CompleteChats(c, c, markCompletionSent(completionStatus, c.chatIds[c.chat]),
                     c.chat + 1)
    /\ allDelivered' = (allDelivered /\ delivered)
    /\ UNCHANGED <<providerVars, ledgerVars, subscriptions, now, pollIntervalMs,
                   timeoutId, intervalId, timers, ledger, lastSentAt, steady>>

SendCompletionResolvesOrAborts(c, delivered) ==
    /\ c \in cycles
    /\ c.pc = "sendCompletion"
    /\ IF delivered
          THEN CompleteChats(c, c, markCompletionSent(completionStatus, c.chatIds[c.chat]),
                             c.chat + 1)
          ELSE /\ Proceed(c, [pc |-> "done"])
               /\ UNCHANGED <<notificationHistory, completionStatus, completions>>
    /\ allDelivered' = (allDelivered /\ delivered)
    /\ UNCHANGED <<providerVars, ledgerVars, subscriptions, now, pollIntervalMs,
                   timeoutId, intervalId, timers, ledger, lastSentAt, steady>>

\* handleAllRequestsInactive: bot.api.sendMessage has delivered the completion
\* message, or has thrown
SendCompletionResolves(c, delivered) ==
    /\ c \in cycles
    /\ c.pc = "sendCompletion"
    /\ CompleteChats(c, c,
                     IF delivered
                        THEN markCompletionSent(completionStatus, c.chatIds[c.chat])
                        ELSE completionStatus,
                     c.chat + 1)
    /\ allDelivered' = (allDelivered /\ delivered)
    /\ UNCHANGED <<providerVars, ledgerVars, subscriptions, now, pollIntervalMs,
                   timeoutId, intervalId, timers, ledger, lastSentAt, steady>>

\* a request of the contract changes: it is made, becomes claimable or is claimed
LedgerChanges(id, status) ==
    /\ <<ledger[id], status>> \in Lifecycle
    /\ ledger' = [ledger EXCEPT ![id] = status]
    /\ steady' = [steady EXCEPT ![id] = FALSE]
    /\ UNCHANGED <<providerVars, ledgerVars, storeVars, schedulerVars, cycles,
                   lastSentAt, completions, allDelivered>>

\* a subscription as the data file holds it
Subscription(walletAddress, frequencySeconds) ==
    [walletAddress |-> toLowerCase(walletAddress),
     frequencySeconds |-> frequencySeconds, active |-> TRUE]

\* the bot has been constructed on a data file that holds the subscriptions
\* `subs` and the notification records `history`, with POLL_INTERVAL_MS =
\* `interval`, at time `at`, while the contract holds `requests`
InitPollingFrom(subs, history, requests, interval, at) ==
    /\ numProviders = 1
    /\ maxRetries = ServiceMaxRetries
    /\ retryDelay = ServiceRetryDelay
    /\ maxRetryDelay = ServiceMaxRetryDelay
    /\ InitCalls
    /\ InitLedger
    /\ subscriptions = subs
    /\ notificationHistory = history
    /\ completionStatus = EmptyObject
    /\ now = at
    /\ pollIntervalMs = interval
    /\ timeoutId = Null
    /\ intervalId = Null
    /\ timers = {}
    /\ isPolling = FALSE
    /\ cycles = {}
    /\ ledger = requests
    /\ lastSentAt = EmptyObject
    /\ steady = [id \in DOMAIN requests |-> requests[id] = "claimable"]
    /\ completions = EmptyObject
    /\ allDelivered = TRUE

\* the same on a data file without notification records
InitPolling(subs, requests, interval, at) ==
    InitPollingFrom(subs, EmptyObject, requests, interval, at)

CycleStep(c) ==
    \/ \E allRequestIds \in RequestsByOwnerResults(c.wallets[c.wallet]) :
          GetRequestsByOwnerResolves(c, allRequestIds)
    \/ \E activeRequestIds \in ActiveResults(c.allRequestIds) :
          FilterActiveRequestsResolves(c, activeRequestIds)
    \/ \E claimableRequestIds \in ClaimableResults(c.queried) :
          GetClaimableFromActiveResolves(c, claimableRequestIds)
    \/ \E delivered \in BOOLEAN : SendNotificationResolves(c, delivered)
    \/ \E delivered \in BOOLEAN : SendCompletionResolves(c, delivered)

NextCycle ==
    \/ \E t \in timers : TimeoutFires(t)
    \/ \E t \in timers : IntervalFires(t)
    \/ \E c \in cycles : CycleStep(c)
    \/ Tick

\* one chat watches the wallet that owns the requests, which go their way
\* on the contract while the poller runs
InitPollerWatching ==
    \E f \in {1, MaxFrequencySeconds} :
       InitPolling((ChatKey(12) :> Subscription("0xAbC1", f)),
                   (7 :> "claimable") @@ (71 :> "pending"), MsPerSecond, 0)

NextPoller ==
    \/ start
    \/ NextCycle
    \/ \E id \in DOMAIN ledger, status \in Statuses : LedgerChanges(id, status)

SpecPoller == InitPollerWatching /\ [][NextPoller]_vars

\* two chats, bound to one wallet or to two, while the poller is started and
\* stopped
InitScheduler ==
    \E w \in WalletAddresses :
       InitPolling((ChatKey(1) :> Subscription("0xAbC1", 1))
                      @@ (ChatKey(12) :> Subscription(w, 1)),
                   [id \in {7} |-> "claimable"], MsPerSecond, 0)

NextScheduler ==
    \/ start
    \/ stop
    \/ NextCycle

SpecScheduler == InitScheduler /\ [][NextScheduler]_vars

\* every query and delivery a cycle awaits returns in the end: weak fairness
\* of the steps of the cycles, written out, a step of a cycle being enabled
\* exactly while a cycle runs
SpecSchedulerFair ==
    /\ SpecScheduler
    /\ []<>(cycles = {}) \/ []<><<\E c \in cycles : CycleStep(c)>>_vars

\* the cycles that, in this step, hand a message of the kind to bot.api.sendMessage
Sending(kind) == {c \in cycles' \ cycles : c.pc = kind}

(***************************************************************************)
(* C11: when a batch sent to a chat lists a request that has been          *)
(* claimable on the contract all along, and an earlier batch to that chat  *)
(* listed it too, at least the chat's frequencySeconds lie between the     *)
(* two, also when ledger queries failed in between.                        *)
(***************************************************************************)
C11_BatchesOneWindowApart ==
    [][\A c \in Sending("sendNotification") :
          \A r \in Elements(c.requestsToNotify) :
             LET chatId == c.chatIds[c.chat]
                 key == NotificationKey(chatId, r)
             IN  (steady[parseInt(r)] /\ key \in DOMAIN lastSentAt) =>
                    now - lastSentAt[key].lastNotifiedAt >=
                       subscriptions[ChatKey(chatId)].frequencySeconds * MsPerSecond
      ]_vars

(***************************************************************************)
(* C12: when a cycle has found requests of a wallet active and claimable,  *)
(* each chat bound to the wallet that has no notification record for one   *)
(* of them is, at its turn in that cycle, sent a batch that lists the      *)
(* request, whatever its frequency and whatever records it has for other   *)
(* requests.  A chat's turn comes in the step that found the requests, or  *)
(* in the step that ends the delivery to the chat before it.               *)
(***************************************************************************)
AnnouncedAtTurn(chatIds, from, claimable) ==
    \A j \in from..Len(chatIds), r \in Elements(claimable) :
       (/\ ChatKey(chatIds[j]) \in DOMAIN subscriptions
        /\ NotificationKey(chatIds[j], r) \notin DOMAIN notificationHistory
        /\ \A s \in Sending("sendNotification") : s.chat >= j) =>
          \E s \in Sending("sendNotification") :
             /\ s.chatIds[s.chat] = chatIds[j]
             /\ r \in Elements(s.requestsToNotify)

C12_NewClaimableAnnouncedAtOnce ==
    [][\A c \in cycles :
          /\ \A claimable \in ClaimableResults(c.queried) :
                GetClaimableFromActiveResolves(c, claimable) =>
                   AnnouncedAtTurn(getChatsForWallet(subscriptions, c.wallets[c.wallet]),
                                   1, claimable)
          /\ \A delivered \in BOOLEAN :
                SendNotificationResolves(c, delivered) =>
                   AnnouncedAtTurn(c.chatIds, c.chat + 1, c.claimableRequestIds)
      ]_vars

C12_Witness ==
    \E c \in cycles :
       /\ c.pc = "sendNotification"
       /\ c.chatIds[c.chat] = 12
       /\ c.requestsToNotify = <<Decimal(71)>>
       /\ c.claimableRequestIds = <<Decimal(7), Decimal(71)>>
       /\ NotificationKey(12, Decimal(7)) \in DOMAIN notificationHistory
       /\ now - notificationHistory[NotificationKey(12, Decimal(7))].lastNotifiedAt
             < subscriptions[ChatKey(12)].frequencySeconds * MsPerSecond

(***************************************************************************)
(* C13: while every delivery succeeds, a chat bound to a wallet is sent    *)
(* the completion message exactly once per run of cycles that find the     *)
(* wallet's request list non-empty and none of its requests active, in the *)
(* first cycle of the run: at its turn in such a cycle the chat is sent    *)
(* the message exactly when it has not been sent one since a cycle last    *)
(* found an active request of the wallet.                                  *)
(***************************************************************************)
CompletionAtTurn(chatIds, from) ==
    \A j \in from..Len(chatIds) :
       (\A s \in Sending("sendCompletion") : s.chat >= j) =>
          ((\E s \in Sending("sendCompletion") : s.chat = j)
              <=> chatIds[j] \notin DOMAIN completions)

C13_OneCompletionPerEpisode ==
    [][allDelivered =>
          \A c \in cycles :
             /\ FilterActiveRequestsResolves(c, <<>>) =>
                   CompletionAtTurn(getChatsForWallet(subscriptions,
                                                      c.wallets[c.wallet]), 1)
             /\ \A delivered \in BOOLEAN :
                   SendCompletionResolves(c, delivered) =>
                      CompletionAtTurn(c.chatIds, c.chat + 1)
      ]_vars

\* a timer of the runtime is due and its callback runs
Trigger == \E t \in timers : TimeoutFires(t) \/ IntervalFires(t)

\* in this step a poll() passes its guard and goes to check its first wallet
CycleStarts == \E c \in cycles' \ cycles : c.pc = "getRequestsByOwner" /\ c.wallet = 1

(***************************************************************************)
(* C14: at most one poll cycle runs at any time, and the guard isPolling   *)
(* is set exactly while one runs.  A trigger of the one-shot or of the     *)
(* recurring timer that comes while a cycle runs starts nothing, changes   *)
(* nothing in the store or in what has been sent, and leaves the guard     *)
(* set; a cycle starts only in the step of a trigger that finds the guard  *)
(* clear, so a skipped trigger is not made up for when the cycle ends.     *)
(***************************************************************************)
C14_OneCycleAtATime ==
    [][/\ Cardinality(cycles') <= 1
       /\ isPolling' <=> cycles' # {}
       /\ (Trigger /\ isPolling) =>
             /\ UNCHANGED <<cycles, storeVars, historyVars>>
             /\ isPolling'
       /\ CycleStarts => (Trigger /\ ~isPolling)
      ]_vars

\* the interval timer has fired at this instant while a cycle that started
\* earlier was still running
C14_Witness ==
    /\ isPolling
    /\ intervalId # Null
    /\ intervalId.due = now + pollIntervalMs
    /\ \E c \in cycles : c.startedAt < now

(***************************************************************************)
(* C15: the runtime holds at most one live timer, which is the one the     *)
(* poller has a handle of.  start() while a handle is held arms no timer   *)
(* and changes nothing; stop() leaves no live timer, and changes nothing   *)
(* when no handle is held; only start() arms a timer when none is live,    *)
(* so nothing triggers a poll between a stop() and the next start().       *)
(***************************************************************************)
C15_AtMostOneLiveTimer ==
    [][/\ Cardinality(timers') <= 1
       /\ timers' = {timeoutId', intervalId'} \ {Null}
       /\ (start /\ (timeoutId # Null \/ intervalId # Null)) => UNCHANGED vars
       /\ stop => timers' = {}
       /\ (stop /\ timeoutId = Null /\ intervalId = Null) => UNCHANGED vars
       /\ (timers = {} /\ timers' # {}) => start
       /\ timers = {} => ~Trigger
      ]_vars

\* the poller has been started again after a stop(): the one-shot timer is
\* armed while a cycle that an earlier timer started still runs
C15_Witness ==
    /\ timers = {timeoutId}
    /\ timeoutId # Null
    /\ intervalId = Null
    /\ cycles # {}

\* how many quarters of an hour the clock is followed
MaxQuarterHours == 6

\* the seconds and the milliseconds of the wall-clock times start() is tried at
SampledSeconds == {0, 1, 42, 59}
SampledMilliseconds == {0, 1, 999}

\* the bot runs with the default POLL_INTERVAL_MS and no subscription yet, at
\* any minute of the hour
InitTimer ==
    \E m \in 0..59, sec \in SampledSeconds, ms \in SampledMilliseconds :
       InitPolling(EmptyObject, (7 :> "absent"), DefaultPollIntervalMs,
                   (m * 60 + sec) * MsPerSecond + ms)

\* the clock reaches the time the live timer t is due
AdvanceToTimer(t) ==
    /\ t \in timers
    /\ t.due > now
    /\ t.due <= MaxQuarterHours * DefaultPollIntervalMs
    /\ now' = t.due
    /\ UNCHANGED <<providerVars, ledgerVars, pollerVars, subscriptions,
                   notificationHistory, completionStatus>>

NextTimer ==
    \/ start
    \/ stop
    \/ \E t \in timers : TimeoutFires(t)
    \/ \E t \in timers : IntervalFires(t)
    \/ \E t \in timers : AdvanceToTimer(t)

SpecTimer == InitTimer /\ [][NextTimer]_vars

\* the time `at` is on the quarter of an hour
Aligned(at) ==
    /\ getMinutes(at) % 15 = 0
    /\ getSeconds(at) = 0
    /\ getMilliseconds(at) = 0

(***************************************************************************)
(* C16: the delay start() gets from calculateDelayToNextAlignedTime, at    *)
(* any minute, second and millisecond, is at least 0 and less than 15      *)
(* minutes and leads from now to an instant on the quarter of an hour,     *)
(* which is then the earliest such instant at or after now; at :07:42 the  *)
(* delay leads to :15:00.                                                  *)
(***************************************************************************)
C16_DelayToNextAlignedTime ==
    [][(start /\ timeoutId' # timeoutId) =>
          LET d == timeoutId'.ms
          IN  /\ d = calculateDelayToNextAlignedTime(now)
              /\ 0 <= d
              /\ d < 15 * 60 * MsPerSecond
              /\ Aligned(now + d)
              /\ (getMinutes(now) = 7 /\ getSeconds(now) = 42
                     /\ getMilliseconds(now) = 0) =>
                    (getMinutes(now + d) = 15 /\ getSeconds(now + d) = 0)
      ]_vars

(***************************************************************************)
(* C17: with the poll interval at 15 minutes and timers that fire when     *)
(* they are due, every trigger of a poll after start(), from the one-shot  *)
(* timer and from the interval timer, comes at an instant on the quarter   *)
(* of an hour, whatever the time start() was called at.                    *)
(***************************************************************************)
C17_TriggersAligned ==
    [][Trigger => Aligned(now)]_vars

\* the wallet has the requests 1, 2 and 3: 1 is claimed, 2 is active and
\* claimable, 3 is active and not claimable.  Two chats watch the wallet; one
\* of them was notified about request 1 before it was claimed
InitExample ==
    InitPollingFrom((ChatKey(1) :> Subscription("0xAbC1", 1))
                       @@ (ChatKey(12) :> Subscription("0xAbC1", MaxFrequencySeconds)),
                    (NotificationKey(12, Decimal(1)) :> [lastNotifiedAt |-> 0]),
                    (1 :> "claimed") @@ (2 :> "claimable") @@ (3 :> "pending"),
                    MsPerSecond, 0)

NextExample ==
    \/ start
    \/ NextCycle

SpecExample == InitExample /\ [][NextExample]_vars

(***************************************************************************)
(* C18: every request listed in a batch sent to a chat was, in the cycle   *)
(* that sends it, returned by getRequestsByOwner for the wallet, kept by   *)
(* filterActiveRequests, reported claimable by canClaimRequest and due     *)
(* for the chat by shouldNotify; canClaimRequest is asked about exactly    *)
(* the requests classified active; no batch is empty.  For the wallet      *)
(* with requests 1 (claimed), 2 (active, claimable) and 3 (active, not     *)
(* claimable) every batch lists request 2 only, each bound chat that has   *)
(* no record for request 2 is sent one at its turn, and a cycle that       *)
(* classified {2, 3} active leaves no record of request 1 for a chat       *)
(* whose turn has come.                                                    *)
(***************************************************************************)
C18_BatchListsCheckedRequests ==
    [][/\ \A c \in cycles' :
             /\ Elements(c.activeRequestIds) \subseteq Elements(c.allRequestIds)
             /\ c.pc = "getClaimableFromActive" => c.queried = c.activeRequestIds
             /\ Elements(c.queried) \subseteq Elements(c.activeRequestIds)
             /\ Elements(c.claimableRequestIds) \subseteq Elements(c.queried)
       /\ \A c \in Sending("sendNotification") :
             LET chatId == c.chatIds[c.chat]
             IN  /\ c.requestsToNotify # <<>>
                 /\ \A r \in Elements(c.requestsToNotify) :
                       /\ r \in Elements(c.allRequestIds)
                       /\ r \in Elements(c.activeRequestIds)
                       /\ r \in Elements(c.claimableRequestIds)
                       /\ isDue(subscriptions, notificationHistory, now, chatId, r)
                 /\ c.requestsToNotify = <<Decimal(2)>>
                 /\ c.activeRequestIds = <<Decimal(2), Decimal(3)>> =>
                       NotificationKey(chatId, Decimal(1)) \notin DOMAIN notificationHistory'
       /\ \A c \in cycles :
             /\ GetClaimableFromActiveResolves(c, <<Decimal(2)>>) =>
                   AnnouncedAtTurn(getChatsForWallet(subscriptions, c.wallets[c.wallet]),
                                   1, <<Decimal(2)>>)
             /\ \A delivered \in BOOLEAN :
                   SendNotificationResolves(c, delivered) =>
                      AnnouncedAtTurn(c.chatIds, c.chat + 1, c.claimableRequestIds)
      ]_vars

\* the second chat bound to the wallet is being sent its batch, after the
\* first chat was sent one in the same cycle
C18_Witness ==
    \E c \in cycles :
       /\ c.pc = "sendNotification"
       /\ c.allRequestIds = <<Decimal(1), Decimal(2), Decimal(3)>>
       /\ c.activeRequestIds = <<Decimal(2), Decimal(3)>>
       /\ c.claimableRequestIds = <<Decimal(2)>>
       /\ c.chatIds = <<1, 12>>
       /\ c.chat = 2
       /\ c.requestsToNotify = <<Decimal(2)>>
       /\ NotificationKey(1, Decimal(2)) \in DOMAIN notificationHistory
       /\ notificationHistory[NotificationKey(1, Decimal(2))].lastNotifiedAt = now
       /\ NotificationKey(12, Decimal(1)) \notin DOMAIN notificationHistory

\* the cycle c, with no chat of its wallet left to send to, goes to check its
\* next wallet, or ends and clears the guard when the wallet was the last
GoesOn(c) ==
    IF c.wallet < Len(c.wallets)
       THEN /\ cycles' = {CheckWallet(c.wallets, c.wallet + 1, c.startedAt)}
            /\ isPolling'
       ELSE /\ cycles' = {}
            /\ ~isPolling'

\* after the delivery to the chat at c.chat, the cycle sends a message of the
\* kind to the first chat among `later`, or goes on when there is none
NextChatServed(c, kind, later) ==
    IF later = {} THEN GoesOn(c)
    ELSE /\ \E s \in Sending(kind) :
               /\ s.chat = CHOOSE j \in later : \A k \in later : j <= k
               /\ s.wallet = c.wallet
         /\ isPolling'

(***************************************************************************)
(* C19: when the delivery of a batch or of a completion message to a chat  *)
(* fails, the cycle goes on as after a delivery: the next chat bound to    *)
(* the wallet that has a request due, or is owed the completion message,   *)
(* is sent its message; when there is none, the next wallet of the cycle   *)
(* is checked; and after the last wallet the cycle ends and isPolling is   *)
(* cleared.                                                                *)
(***************************************************************************)
C19_DeliveryFailureDoesNotAbort ==
    [][\A c \in cycles :
          /\ SendNotificationResolves(c, FALSE) =>
                NextChatServed(c, "sendNotification",
                   {j \in (c.chat + 1)..Len(c.chatIds) :
                       \E r \in Elements(c.claimableRequestIds) :
                          isDue(subscriptions, notificationHistory, now, c.chatIds[j], r)})
          /\ SendCompletionResolves(c, FALSE) =>
                NextChatServed(c, "sendCompletion",
                   {j \in (c.chat + 1)..Len(c.chatIds) :
                       shouldSendCompletion(completionStatus, c.chatIds[j], 0).value})
      ]_vars

\* the completion message to the first chat of the wallet was not delivered
\* in this cycle, and the second chat is being sent its own
C19_Witness ==
    /\ ~allDelivered
    /\ completions = (1 :> 1) @@ (12 :> 1)
    /\ ~completionStatus[ChatKey(1)].completionSent
    /\ \E c \in cycles :
          /\ c.pc = "sendCompletion"
          /\ c.chatIds = <<1, 12>>
          /\ c.chat = 2

(***************************************************************************)
(* C20: stop() leaves a running cycle, the guard, the store and what has   *)
(* been sent as they are.  With no timer live the cycle takes its steps   *)
(* as the code says: a wallet without requests is followed by the next     *)
(* wallet or by the end of the cycle, a batch that has been handed to the  *)
(* bot is recorded for each of its requests and followed by the batch of   *)
(* the next chat that has a request due; and as the queries and deliveries *)
(* it awaits return, the cycle comes to its end.  A cycle starts only in   *)
(* the step of a trigger, which needs a live timer, and stop() leaves      *)
(* none: no cycle starts until start() arms one again.                     *)
(***************************************************************************)
C20_StopLetsCycleFinish ==
    /\ (timers = {} /\ cycles # {}) ~> (cycles = {} /\ ~isPolling)
    /\ [][/\ stop => (UNCHANGED <<cycles, isPolling, storeVars, historyVars>> /\ timers' = {})
          /\ CycleStarts => (Trigger /\ timers # {})
          /\ timers = {} =>
                \A c \in cycles :
                   /\ GetRequestsByOwnerResolves(c, <<>>) => GoesOn(c)
                   /\ \A delivered \in BOOLEAN :
                         SendNotificationResolves(c, delivered) =>
                            /\ \A r \in Elements(c.requestsToNotify) :
                                  LET key == NotificationKey(c.chatIds[c.chat], r)
                                  IN  /\ key \in DOMAIN notificationHistory'
                                      /\ notificationHistory'[key].lastNotifiedAt = now
                            /\ NextChatServed(c, "sendNotification",
                                  {j \in (c.chat + 1)..Len(c.chatIds) :
                                      \E r \in Elements(c.claimableRequestIds) :
                                         isDue(subscriptions, notificationHistory, now,
                                               c.chatIds[j], r)})
         ]_vars

\* the poller was stopped during a cycle, which has since recorded the batch
\* of its first chat and is sending the batch of its second
C20_Witness ==
    /\ timers = {}
    /\ timeoutId = Null
    /\ intervalId = Null
    /\ isPolling
    /\ \E c \in cycles :
          /\ c.pc = "sendNotification"
          /\ c.chat = 2
          /\ NotificationKey(c.chatIds[1], Decimal(7)) \in DOMAIN notificationHistory

(***************************************************************************)
(* C21: the cursor currentProviderIndex is always an index of the list of  *)
(* providers, 0 <= currentProviderIndex < N, also while several calls of   *)
(* executeWithRetry are in flight and take their steps in any order; when  *)
(* the cursor changes it goes to (cursor + 1) mod N, or to 0 in the step   *)
(* in which a call's operation succeeds.                                   *)
(***************************************************************************)
C21_CursorIsValidIndex ==
    [][/\ currentProviderIndex' \in 0..(numProviders - 1)
       /\ currentProviderIndex' # currentProviderIndex =>
             \/ currentProviderIndex' = (currentProviderIndex + 1) % numProviders
             \/ /\ currentProviderIndex' = 0
                /\ \E c \in Calls : pc[c] = "awaiting" /\ pc'[c] = "returned"
      ]_vars

\* two calls in flight at once: one has succeeded on the second provider and
\* reset the cursor, the other is still at work on the second provider
C21_Witness ==
    /\ numProviders = 2
    /\ currentProviderIndex = 0
    /\ \E c, d \in Calls :
          /\ pc[c] = "returned"
          /\ provider[c] = 1
          /\ pc[d] \in {"awaiting", "sleeping"}
          /\ provider[d] = 1

\* the notification records the store holds for the chat
RecordsOf(history, chatId) ==
    LET keys == {key \in DOMAIN history : startsWith(key, ChatKey(chatId) \o <<":">>)}
    IN  [key \in keys |-> history[key]]

(***************************************************************************)
(* C22: a poll cycle creates or refreshes the notification records of a    *)
(* chat only in the step in which the batch to that chat has been          *)
(* delivered; when the delivery has failed, the records of the chat stay   *)
(* as they were, so that the requests of the batch are due again in the    *)
(* next cycle.                                                             *)
(***************************************************************************)
C22_RecordOnlyAfterDelivery ==
    [][\A c \in cycles :
          SendNotificationResolves(c, FALSE) =>
             RecordsOf(notificationHistory', c.chatIds[c.chat])
                = RecordsOf(notificationHistory, c.chatIds[c.chat])
      ]_vars

\* completionStatus[chatId].completionSent is set in the statuses
Flagged(statuses, chatId) ==
    /\ ChatKey(chatId) \in DOMAIN statuses
    /\ statuses[ChatKey(chatId)].completionSent

\* each chat from index `from` on whose turn comes in this step is sent the
\* completion message exactly when its flag is not set
FlagDecidesAtTurn(chatIds, from) ==
    \A j \in from..Len(chatIds) :
       (\A s \in Sending("sendCompletion") : s.chat >= j) =>
          ((\E s \in Sending("sendCompletion") : s.chat = j)
              <=> ~Flagged(completionStatus, chatIds[j]))

(***************************************************************************)
(* C23: the completion flag of a chat is set only in the step in which     *)
(* the completion message to that chat has been delivered; after a failed  *)
(* delivery the flag is not set.  In every cycle that finds no active      *)
(* request of the wallet a chat is sent the completion message at its turn *)
(* exactly when its flag is not set: again after each failure, and no more *)
(* once a delivery has succeeded.  A flag that is set is cleared only by a *)
(* cycle that finds active requests.                                       *)
(***************************************************************************)
C23_CompletionMarkedOnDelivery ==
    [][/\ \A chatId \in ChatIds :
             /\ (Flagged(completionStatus', chatId) /\ ~Flagged(completionStatus, chatId)) =>
                   \E c \in cycles :
                      /\ SendCompletionResolves(c, TRUE)
                      /\ c.chatIds[c.chat] = chatId
             /\ (Flagged(completionStatus, chatId) /\ ~Flagged(completionStatus', chatId)) =>
                   \E c \in cycles :
                      \E activeRequestIds \in ActiveResults(c.allRequestIds) :
                         /\ activeRequestIds # <<>>
                         /\ FilterActiveRequestsResolves(c, activeRequestIds)
       /\ \A c \in cycles :
             /\ SendCompletionResolves(c, FALSE) =>
                   /\ ~Flagged(completionStatus', c.chatIds[c.chat])
                   /\ FlagDecidesAtTurn(c.chatIds, c.chat + 1)
             /\ SendCompletionResolves(c, TRUE) =>
                   FlagDecidesAtTurn(c.chatIds, c.chat + 1)
             /\ FilterActiveRequestsResolves(c, <<>>) =>
                   FlagDecidesAtTurn(getChatsForWallet(subscriptions, c.wallets[c.wallet]), 1)
      ]_vars

\* the completion message is being sent to a chat for the second time since
\* its wallet last had an active request, the first delivery having failed
C23_Witness ==
    \E c \in cycles :
       /\ c.pc = "sendCompletion"
       /\ c.chatIds[c.chat] \in DOMAIN completions
       /\ completions[c.chatIds[c.chat]] >= 2
       /\ ~Flagged(completionStatus, c.chatIds[c.chat])

\* chats whose ids share leading or trailing digits
NearbyChatIds == {1, 12, 21}

\* notifyChatsForWallet records a batch that was sent to the chat
RecordBatch(chatId, requestIds) ==
    /\ notificationHistory' = recordNotifications(notificationHistory, now, chatId, requestIds)
    /\ lastSentAt' = recordNotifications(lastSentAt, now, chatId, requestIds)
    /\ UNCHANGED <<providerVars, ledgerVars, subscriptions, completionStatus, now,
                   schedulerVars, cycles, ledger, steady, completions, allDelivered>>

\* the poller calls cleanupInactiveRequests
CleanupInactiveRequests(chatId, activeRequestIds) ==
    /\ notificationHistory' =
          cleanupInactiveRequests(notificationHistory, chatId, activeRequestIds)
    /\ UNCHANGED <<providerVars, ledgerVars, subscriptions, completionStatus, now,
                   pollerVars>>

\* the poller calls markCompletionSent
MarkCompletionSent(chatId) ==
    /\ completionStatus' = markCompletionSent(completionStatus, chatId)
    /\ UNCHANGED <<providerVars, ledgerVars, subscriptions, notificationHistory, now,
                   pollerVars>>

\* the store of a bot with one subscription, before any batch was sent
InitCleanup ==
    InitPolling((ChatKey(12) :> Subscription("0xAbC1", 1)),
                (7 :> "claimable") @@ (71 :> "claimable"), MsPerSecond, 0)

NextCleanup ==
    \/ \E chatId \in NearbyChatIds, requestIds \in ListsOver(RequestIds) \ {<<>>} :
          RecordBatch(chatId, requestIds)
    \/ \E chatId \in NearbyChatIds, activeRequestIds \in ListsOver(RequestIds) :
          CleanupInactiveRequests(chatId, activeRequestIds)
    \/ \E chatId \in NearbyChatIds : MarkCompletionSent(chatId)

SpecCleanup == InitCleanup /\ [][NextCleanup]_vars

(***************************************************************************)
(* C24: cleanupInactiveRequests(chat, activeIds) deletes the notification  *)
(* records of the chat for the requests that are not in activeIds, and     *)
(* nothing else: the chat's records for requests in activeIds and every    *)
(* record of any other chat stay with their values, also for chats whose   *)
(* ids share leading or trailing digits with the chat's id, and the        *)
(* subscriptions and the completion status stay as they are.               *)
(***************************************************************************)
C24_CleanupDeletesInactiveOfChatOnly ==
    [][\A chatId \in NearbyChatIds, activeRequestIds \in ListsOver(RequestIds) :
          CleanupInactiveRequests(chatId, activeRequestIds) =>
             /\ \A other \in NearbyChatIds, r \in RequestIds :
                   LET key == NotificationKey(other, r)
                   IN  IF other = chatId /\ r \notin Elements(activeRequestIds)
                          THEN key \notin DOMAIN notificationHistory'
                          ELSE key \in DOMAIN notificationHistory =>
                                  /\ key \in DOMAIN notificationHistory'
                                  /\ notificationHistory'[key] = notificationHistory[key]
             /\ DOMAIN notificationHistory' \subseteq DOMAIN notificationHistory
             /\ UNCHANGED <<subscriptions, completionStatus>>
      ]_vars

\* chat 1 has lost its record of request 7 in a cleanup that kept its record
\* of request 71 and the records chats 12 and 21 have of request 7
C24_Witness ==
    /\ NotificationKey(1, Decimal(7)) \in DOMAIN lastSentAt
    /\ NotificationKey(1, Decimal(7)) \notin DOMAIN notificationHistory
    /\ NotificationKey(1, Decimal(71)) \in DOMAIN notificationHistory
    /\ NotificationKey(12, Decimal(7)) \in DOMAIN notificationHistory
    /\ NotificationKey(21, Decimal(7)) \in DOMAIN notificationHistory
    /\ completionStatus # EmptyObject

(***************************************************************************)
(* C25: when getRequestsByOwner returns an empty list for a wallet, be it  *)
(* that the wallet has no request or that the query failed, the cycle is   *)
(* done with the wallet in that step: it goes to its next wallet or ends,  *)
(* so no other ledger query is made for the wallet; no message is sent;    *)
(* the notification records and the completion status stay as they are.    *)
(***************************************************************************)
C25_EmptyListSkipsWallet ==
    [][\A c \in cycles :
          GetRequestsByOwnerResolves(c, <<>>) =>
             /\ GoesOn(c)
             /\ Sending("sendNotification") = {}
             /\ Sending("sendCompletion") = {}
             /\ UNCHANGED <<subscriptions, notificationHistory, completionStatus>>
             /\ UNCHANGED <<lastSentAt, completions>>
      ]_vars

\* the query for the first wallet, which owns a request, came back empty,
\* and the cycle is at its second wallet: no cycle has got further with the
\* first wallet, or the chat bound to it would have a completion status
C25_Witness ==
    /\ completionStatus = EmptyObject
    /\ notificationHistory = EmptyObject
    /\ \E c \in cycles :
          /\ c.pc = "getRequestsByOwner"
          /\ c.wallet = 2
          /\ c.wallets[1] = LedgerOwner

\* chats unsubscribe while the poller runs its cycles
NextChurn ==
    \/ start
    \/ NextCycle
    \/ \E chatId \in ChatIds : Unsubscribe(chatId)

SpecChurn == InitScheduler /\ [][NextChurn]_vars

\* the same when every query and delivery a cycle awaits returns in the end
SpecChurnFair ==
    /\ SpecChurn
    /\ []<>(cycles = {}) \/ []<><<\E c \in cycles : CycleStep(c)>>_vars

(***************************************************************************)
(* C26: a cycle takes its wallets from getAllMonitoredWallets when it      *)
(* starts and keeps that list; it is at one wallet, and at one await, at a *)
(* time; from a wallet it goes to the next wallet of the list only, where  *)
(* it starts with getRequestsByOwner, and it ends only after the last      *)
(* wallet of the list: each wallet of the list is checked once, in the     *)
(* order of the list, also after a failed check of an earlier wallet and   *)
(* when subscriptions go away during the cycle.                            *)
(***************************************************************************)
C26_WalletsOneAtATimeInOrder ==
    [][/\ Cardinality(cycles') <= 1
       /\ \A n \in cycles' \ cycles :
             IF cycles = {}
                THEN /\ n.wallets = getAllMonitoredWallets(subscriptions)
                     /\ n.wallet = 1
                     /\ n.pc = "getRequestsByOwner"
                ELSE \A c \in cycles :
                        /\ n.wallets = c.wallets
                        /\ \/ n.wallet = c.wallet /\ n.pc # "getRequestsByOwner"
                           \/ n = CheckWallet(c.wallets, c.wallet + 1, c.startedAt)
                        /\ n.wallet \in 1..Len(n.wallets)
       /\ \A c \in cycles : cycles' = {} => c.wallet = Len(c.wallets)
      ]_vars

\* a cycle is at its second wallet although the chat bound to that wallet
\* has unsubscribed since the cycle started, and the check of the first
\* wallet ended with its first query
C26_Witness ==
    /\ ChatKey(12) \notin DOMAIN subscriptions
    /\ completionStatus = EmptyObject
    /\ \E c \in cycles :
          /\ c.wallets = <<"0xabc1", "0xdef2">>
          /\ c.wallet = 2

(***************************************************************************)
(* C27: every call of executeWithRetry ends, with a result or with the     *)
(* aggregate error, given only that the timers of withTimeout and of sleep *)
(* fire: the operation itself need never complete.  A call makes at most   *)
(* N * M attempts; an attempt that ends by the timeout is followed by the  *)
(* backoff sleep and another attempt like any retryable failure, so a call *)
(* whose every attempt times out ends with the aggregate error after       *)
(* exactly N * M attempts, M on each provider.                             *)
(***************************************************************************)
C27_CallTerminates ==
    /\ (pc[1] \in {"awaiting", "sleeping"}) ~> Finished(1)
    /\ [](Len(Attempts(1)) <= numProviders * maxRetries)
    /\ []((Finished(1) /\ Started(1)
              /\ AllAttemptsIn(1, {"timeout after 30000ms"})) =>
             /\ pc[1] = "threw"
             /\ Len(Attempts(1)) = numProviders * maxRetries
             /\ \A i \in 1..Len(trace[1]) :
                   (trace[1][i].kind = "attempt" /\ i < Len(trace[1])) =>
                      trace[1][i + 1].kind \in {"sleep", "rotate"})

\* a call has ended with the aggregate error after timeouts only, on more
\* than one provider and with more than one attempt on each
C27_Witness ==
    /\ pc[1] = "threw"
    /\ numProviders = 2
    /\ maxRetries = 3
    /\ Len(Attempts(1)) = 6
    /\ \A i \in 1..6 : Attempts(1)[i].outcome = "timeout after 30000ms"

(***************************************************************************)
(* C28: when every query and delivery a cycle awaits returns, the guard    *)
(* isPolling is cleared again after every cycle that starts, and a poll    *)
(* that finds no monitored wallet leaves it clear.  The step that ends a   *)
(* cycle clears the guard, so a trigger that comes after the end of a      *)
(* cycle finds the guard clear and runs poll() in full: it starts a cycle  *)
(* when a wallet is monitored.                                             *)
(***************************************************************************)
C28_GuardIsCleared ==
    /\ isPolling ~> ~isPolling
    /\ [][/\ (cycles # {} /\ cycles' = {}) => ~isPolling'
          /\ (Trigger /\ cycles = {}) =>
                IF getAllMonitoredWallets(subscriptions) = <<>>
                   THEN ~isPolling' /\ cycles' = {}
                   ELSE isPolling' /\ CycleStarts
         ]_vars

\* a cycle runs that was started after an earlier cycle had recorded a
\* notification and ended
C28_Witness ==
    /\ isPolling
    /\ \E c \in cycles :
          \E key \in DOMAIN notificationHistory :
             notificationHistory[key].lastNotifiedAt < c.startedAt

(***************************************************************************)
(* C29: a chat that has unsubscribed and has not subscribed again has no   *)
(* notification record and no completion status in the store, whatever a   *)
(* cycle suspended at a query or at a delivery does when it goes on.       *)
(***************************************************************************)
C29_UnsubscribedChatLeavesNothing ==
    \A chatId \in ChatIds :
       ChatKey(chatId) \notin DOMAIN subscriptions =>
          /\ DOMAIN RecordsOf(notificationHistory, chatId) = {}
          /\ ChatKey(chatId) \notin DOMAIN completionStatus

(***************************************************************************)
(* C30: every delivery the poller starts, a batch of notifications or a    *)
(* completion message, goes to a chat that holds a subscription in the     *)
(* state in which the delivery starts, also when the chat has unsubscribed *)
(* after the cycle read the chats of the wallet.                           *)
(***************************************************************************)
C30_DeliveriesToSubscribedChatsOnly ==
    [][\A c \in Sending("sendNotification") \cup Sending("sendCompletion") :
          ChatKey(c.chatIds[c.chat]) \in DOMAIN subscriptions']_vars

(***************************************************************************)
(* C31: a call that runs alone and ends with the aggregate error has       *)
(* rotated the cursor exactly N - 1 times and never reset it, so the       *)
(* cursor is left at (start + N - 1) mod N, the provider of the call's     *)
(* last attempt; the call that starts next makes its first attempt there.  *)
(* With one provider the cursor never changes.                             *)
(***************************************************************************)
C31_CursorAfterAggregateError ==
    /\ [](pc[1] = "threw" =>
             LET t == trace[1]
                 a == Attempts(1)
                 last == (StartCursor(1) + numProviders - 1) % numProviders
             IN  /\ Cardinality(Positions(t, 1, Len(t), "rotate")) = numProviders - 1
                 /\ \A i \in 1..Len(a) : a[i].outcome # "ok"
                 /\ currentProviderIndex = last
                 /\ a[Len(a)].provider = last)
    /\ [][/\ (pc[1] = "threw" /\ Start(1)) =>
                /\ provider'[1] = (StartCursor(1) + numProviders - 1) % numProviders
                /\ StartCursor(1)' = provider'[1]
                /\ currentProviderIndex' = currentProviderIndex
          /\ numProviders = 1 => currentProviderIndex' = currentProviderIndex
         ]_vars

\* a call that started at the second of three providers has ended with the
\* aggregate error after errors of both kinds, the cursor wrapped to the first
C31_Witness ==
    /\ pc[1] = "threw"
    /\ numProviders = 3
    /\ StartCursor(1) = 1
    /\ currentProviderIndex = 0
    /\ \E i, j \in 1..Len(Attempts(1)) :
          /\ Attempts(1)[i].outcome \in TransportErrors
          /\ Attempts(1)[j].outcome \in ApplicationErrors

====
